---- MODULE Spec2Model ----
(***************************************************************************)
(* State-machine model of scout/scooter: the search/replace pipeline of    *)
(* src/src/app.rs, src/src/fields.rs and src/src/parsed_fields.rs.         *)
(*                                                                         *)
(*   SpecStats    App::calculate_statistics applied to bounded match lists *)
(*   SpecRewrite  App::perform_replacement / App::replace_in_file over a   *)
(*                small file system, with I/O failures and task abort      *)
(*   Spec         the application from App::new: form, key handlers,       *)
(*                search tasks and the event loop, two searches            *)
(*   SpecSearch   one search over a directory of several files             *)
(*   SpecBrowse   one search while the user moves over and toggles results *)
(*   SpecConfirm  a completed search is confirmed: the replacement task    *)
(*                and the event loop, scheduled fairly                     *)
(*   SpecKeys     the whole application under every key, one search        *)
(*   SpecLists    the list operations of SearchState and ReplaceState      *)
(*   SpecForm     the operations of TextField and the focus operations of  *)
(*                SearchFields on the form                                 *)
(*   SpecReducer  handle_background_processing_event called with every     *)
(*                kind of event on every screen                            *)
(***************************************************************************)
EXTENDS Integers, Sequences, FiniteSets, TLC

(***************************************************************************)
(* Bounds                                                                  *)
(***************************************************************************)
\* longest match list handed to calculate_statistics in SpecStats
MaxStats == 3
\* longest file content (in bytes) at rewrite time in SpecRewrite
MaxLen == 3
\* longest content (in bytes) the target file had when it was searched
MaxSearchedLen == 3

\* searches one run of the application may start
MaxSearches == 2
\* scanner threads of the parallel walker
NumThreads == 2
\* app events that may wait in the event queue
MaxAppEvents == 2

(***************************************************************************)
(* event.rs: ReplaceResult, SearchResult                                   *)
(***************************************************************************)
NoResult == [tag |-> "None", msg |-> ""]
Success == [tag |-> "Success", msg |-> ""]
Error(m) == [tag |-> "Error", msg |-> m]

MsgNotFound == "Failed to find search result in file"
MsgChanged == "File changed since last search"

SearchResult(p, n, l, r, inc, res) ==
    [path |-> p, line_number |-> n, line |-> l, replacement |-> r,
     included |-> inc, replace_result |-> res]

(***************************************************************************)
(* app.rs: calculate_statistics, a fold over the results in order          *)
(***************************************************************************)
ReplaceState(ns, ni, errs, pos) ==
    [num_successes |-> ns, num_ignored |-> ni, errors |-> errs,
     replacement_errors_pos |-> pos]

\* a fold that forgets the results the rewrite never reached
StatsStep_DropsUnfound(acc, res) ==
    IF ~res.included
    THEN [acc EXCEPT !.num_ignored = @ + 1]
    ELSE IF res.replace_result = Success
    THEN [acc EXCEPT !.num_successes = @ + 1]
    ELSE IF res.replace_result = NoResult
    THEN acc
    ELSE [acc EXCEPT !.errors = Append(@, res)]

\* a fold that looks at the outcome before the included flag
StatsStep_OutcomeFirst(acc, res) ==
    IF res.replace_result = Success
    THEN [acc EXCEPT !.num_successes = @ + 1]
    ELSE IF ~res.included
    THEN [acc EXCEPT !.num_ignored = @ + 1]
    ELSE IF res.replace_result = NoResult
    THEN [acc EXCEPT !.errors =
              Append(@, [res EXCEPT !.replace_result = Error(MsgNotFound)])]
    ELSE [acc EXCEPT !.errors = Append(@, res)]

\* one step of the for_each closure: the match arms in source order
StatsStep(acc, res) ==
    IF ~res.included
    THEN [acc EXCEPT !.num_ignored = @ + 1]
    ELSE IF res.replace_result = Success
    THEN [acc EXCEPT !.num_successes = @ + 1]
    ELSE IF res.replace_result = NoResult
    THEN [acc EXCEPT !.errors =
              Append(@, [res EXCEPT !.replace_result = Error(MsgNotFound)])]
    ELSE [acc EXCEPT !.errors = Append(@, res)]

RECURSIVE StatsFold(_, _)
StatsFold(acc, results) ==
    IF results = <<>> THEN acc
    ELSE StatsFold(StatsStep(acc, Head(results)), Tail(results))

calculate_statistics(results) ==
    StatsFold(ReplaceState(0, 0, <<>>, 0), results)

(***************************************************************************)
(* Files: a path is a stem and an extension, a content is a byte sequence  *)
(***************************************************************************)
NL == "\n"
Bytes == {"a", "b", NL}

TxtPath == [stem |-> "f", ext |-> "txt"]
TmpPath == [stem |-> "f", ext |-> "tmp"]
PngPath == [stem |-> "f", ext |-> "png"]
Paths == {TxtPath, TmpPath, PngPath}

Absent == [exists |-> FALSE, data |-> <<>>]
FileOf(c) == [exists |-> TRUE, data |-> c]

ContentsUpTo(m) == UNION { [1..n -> Bytes] : n \in 0..m }
Contents == ContentsUpTo(MaxLen)

\* app.rs:856  file_path.with_extension("tmp") replaces the extension
TempPath(p) == [p EXCEPT !.ext = "tmp"]

FirstNL(c) ==
    IF \E i \in 1..Len(c) : c[i] = NL
    THEN CHOOSE i \in 1..Len(c) : c[i] = NL /\ \A j \in 1..(i - 1) : c[j] # NL
    ELSE 0

\* BufReader::lines / AsyncBufReadExt::lines: the lines without terminators;
\* a final line needs no terminator and the empty content has no line
RECURSIVE Lines(_)
Lines(c) ==
    IF c = <<>> THEN <<>>
    ELSE IF FirstNL(c) = 0 THEN <<c>>
    ELSE <<SubSeq(c, 1, FirstNL(c) - 1)>> \o Lines(SubSeq(c, FirstNL(c) + 1, Len(c)))

Contains(line, b) == \E i \in 1..Len(line) : line[i] = b

(***************************************************************************)
(* app.rs: perform_replacement and replace_in_file                         *)
(***************************************************************************)
\* path_groups: the paths that own an included result
PathGroups(results) ==
    { results[i].path : i \in { j \in DOMAIN results : results[j].included } }

\* line_map.get_mut(&n): HashMap::from_iter keeps the last entry of a key
LineMapGet(results, p, n) ==
    LET S == { i \in DOMAIN results :
                 /\ results[i].included
                 /\ results[i].path = p
                 /\ results[i].line_number = n }
    IN IF S = {} THEN 0 ELSE CHOOSE i \in S : \A j \in S : j <= i

\* a rewrite that replaces the mapped line without comparing it
LineOutcome_Unchecked(line, res) ==
    [out |-> res.replacement, result |-> Success]

\* app.rs:864-871  what is written for a mapped line, and the outcome
LineOutcome(line, res) ==
    IF line = res.line
    THEN [out |-> res.replacement, result |-> Success]
    ELSE [out |-> line, result |-> Error(MsgChanged)]

\* a caller that keeps the outcomes the streaming pass has set
MarkFileError_KeepsSet(results, p, cause) ==
    [i \in DOMAIN results |->
        IF results[i].included /\ results[i].path = p /\ results[i].replace_result = NoResult
        THEN [results[i] EXCEPT !.replace_result = Error(cause)]
        ELSE results[i]]

\* app.rs:549-551  every result of the failing file gets the file error
MarkFileError(results, p, cause) ==
    [i \in DOMAIN results |->
        IF results[i].included /\ results[i].path = p
        THEN [results[i] EXCEPT !.replace_result = Error(cause)]
        ELSE results[i]]

IoError(step) == "io error: " \o step

(***************************************************************************)
(* Key events (crossterm KeyEvent): a code, the char of a Char code, and   *)
(* one modifier                                                            *)
(***************************************************************************)
Key(code, ch, mod) == [code |-> code, ch |-> ch, mod |-> mod]
KeyEnter == Key("Enter", "", "NONE")
KeyEsc == Key("Esc", "", "NONE")
KeyTab == Key("Tab", "", "NONE")
KeyBackTab == Key("BackTab", "", "SHIFT")
KeyBackspace == Key("Backspace", "", "NONE")
Char(c) == Key("Char", c, "NONE")
Ctrl(c) == Key("Char", c, "CONTROL")
Alt(c) == Key("Char", c, "ALT")

(***************************************************************************)
(* fields.rs: TextField, CheckboxField                                     *)
(***************************************************************************)
NoError == ""
RegexErrorShort == "Couldn't parse regex"

TextField(t) == [text |-> t, cursor_idx |-> 0, error |-> NoError]

Min(a, b) == IF a < b THEN a ELSE b
Max(a, b) == IF a < b THEN b ELSE a
SatSub(a, b) == IF a < b THEN 0 ELSE a - b

Take(t, n) == SubSeq(t, 1, Min(n, Len(t)))
Skip(t, n) == SubSeq(t, Min(n, Len(t)) + 1, Len(t))

clamp_cursor_Unclamped(f, pos) == pos

clamp_cursor(f, pos) == Max(0, Min(pos, Len(f.text)))

move_cursor_left(f) == [f EXCEPT !.cursor_idx = clamp_cursor(f, SatSub(f.cursor_idx, 1))]
move_cursor_right(f) == [f EXCEPT !.cursor_idx = clamp_cursor(f, f.cursor_idx + 1)]
move_cursor_start(f) == [f EXCEPT !.cursor_idx = 0]
move_cursor_end(f) == [f EXCEPT !.cursor_idx = Len(f.text)]

\* byte_index falls back to the end of the text
enter_char(f, c) ==
    move_cursor_right(
        [f EXCEPT !.text = Take(f.text, f.cursor_idx) \o <<c>> \o Skip(f.text, f.cursor_idx)])

delete_char(f) ==
    IF f.cursor_idx = 0 THEN f
    ELSE move_cursor_left(
             [f EXCEPT !.text = Take(f.text, f.cursor_idx - 1) \o Skip(f.text, f.cursor_idx)])

delete_char_forward(f) ==
    [f EXCEPT !.text = Take(f.text, f.cursor_idx) \o Skip(f.text, f.cursor_idx + 1)]

\* the two while loops of previous_word_start; idx is 0-based as in the code
RECURSIVE BackOverSpaces(_, _)
BackOverSpaces(t, idx) ==
    IF idx > 0 /\ t[idx + 1] = " " THEN BackOverSpaces(t, idx - 1) ELSE idx

RECURSIVE BackOverWord(_, _)
BackOverWord(t, idx) ==
    IF idx > 0 /\ t[idx] # " " THEN BackOverWord(t, idx - 1) ELSE idx

previous_word_start(f) ==
    IF f.cursor_idx = 0 THEN 0
    ELSE BackOverWord(f.text, BackOverSpaces(f.text, f.cursor_idx - 1))

\* the two while loops of next_word_start over after_char
RECURSIVE OverWord(_, _)
OverWord(t, idx) ==
    IF idx < Len(t) /\ t[idx + 1] # " " THEN OverWord(t, idx + 1) ELSE idx

RECURSIVE OverSpaces(_, _)
OverSpaces(t, idx) ==
    IF idx < Len(t) /\ t[idx + 1] = " " THEN OverSpaces(t, idx + 1) ELSE idx

next_word_start(f) ==
    f.cursor_idx + OverSpaces(Skip(f.text, f.cursor_idx),
                              OverWord(Skip(f.text, f.cursor_idx), 0))

move_cursor_back_word(f) == [f EXCEPT !.cursor_idx = previous_word_start(f)]
move_cursor_forward_word(f) == [f EXCEPT !.cursor_idx = next_word_start(f)]

delete_word_backward(f) ==
    [f EXCEPT !.text = Take(f.text, previous_word_start(f)) \o Skip(f.text, f.cursor_idx),
              !.cursor_idx = previous_word_start(f)]

delete_word_forward(f) ==
    [f EXCEPT !.text = Take(f.text, f.cursor_idx) \o Skip(f.text, next_word_start(f))]

clear(f) == [f EXCEPT !.text = <<>>, !.cursor_idx = 0]
set_error(f, short) == [f EXCEPT !.error = short]
clear_error_Keeps(f) == f

clear_error(f) == [f EXCEPT !.error = NoError]

\* TextField::handle_keys: the match arms in source order
TextHandleKeys(f, k) ==
    IF (k.code = "Char" /\ k.ch = "w" /\ k.mod = "CONTROL")
          \/ (k.code = "Backspace" /\ k.mod = "ALT")
    THEN delete_word_backward(f)
    ELSE IF (k.code = "Char" /\ k.ch = "u" /\ k.mod = "CONTROL")
          \/ (k.code = "Backspace" /\ k.mod = "META")
    THEN clear(f)
    ELSE IF k.code = "Backspace"
    THEN delete_char(f)
    ELSE IF (k.code = "Left" \/ (k.code = "Char" /\ k.ch \in {"b", "B"})) /\ k.mod = "ALT"
    THEN move_cursor_back_word(f)
    ELSE IF k.code = "Home"
    THEN move_cursor_start(f)
    ELSE IF k.code = "Left"
    THEN move_cursor_left(f)
    ELSE IF (k.code = "Right" \/ (k.code = "Char" /\ k.ch \in {"f", "F"})) /\ k.mod = "ALT"
    THEN move_cursor_forward_word(f)
    ELSE IF k.code = "Right" /\ k.mod = "META"
    THEN move_cursor_end(f)
    ELSE IF k.code = "End"
    THEN move_cursor_end(f)
    ELSE IF k.code = "Right"
    THEN move_cursor_right(f)
    ELSE IF (k.code = "Char" /\ k.ch = "d" /\ k.mod = "ALT")
          \/ (k.code = "Delete" /\ k.mod = "ALT")
    THEN delete_word_forward(f)
    ELSE IF k.code = "Delete"
    THEN delete_char_forward(f)
    ELSE IF k.code = "Char"
    THEN enter_char(f, k.ch)
    ELSE f

\* CheckboxField::handle_keys
CheckboxHandleKeys(checked, k) ==
    IF k.code = "Char" /\ k.ch = " " THEN ~checked ELSE checked

(***************************************************************************)
(* app.rs: SearchFields                                                    *)
(***************************************************************************)
NUM_SEARCH_FIELDS == 4

\* fields[highlighted].name
FieldNames == <<"Search", "Replace", "FixedStrings", "PathPattern">>

with_values(search, replace, fixed_strings, filename_pattern) ==
    [search |-> TextField(search),
     replace |-> TextField(replace),
     fixed_strings |-> fixed_strings,
     path_pattern |-> TextField(filename_pattern),
     highlighted |-> 0,
     show_error_popup |-> FALSE,
     advanced_regex |-> FALSE]

with_advanced_regex(sf, advanced_regex) == [sf EXCEPT !.advanced_regex = advanced_regex]

highlighted_field_name(sf) == FieldNames[sf.highlighted + 1]

focus_prev_NoWrap(sf) == [sf EXCEPT !.highlighted = SatSub(@, 1)]

focus_next(sf) == [sf EXCEPT !.highlighted = (@ + 1) % NUM_SEARCH_FIELDS]
focus_prev(sf) ==
    [sf EXCEPT !.highlighted = (@ + SatSub(NUM_SEARCH_FIELDS, 1)) % NUM_SEARCH_FIELDS]

\* Field::handle_keys on the highlighted field: clear_error, then the field's keys
HighlightedHandleKeys(sf, k) ==
    CASE highlighted_field_name(sf) = "Search" ->
           [sf EXCEPT !.search = TextHandleKeys(clear_error(@), k)]
      [] highlighted_field_name(sf) = "Replace" ->
           [sf EXCEPT !.replace = TextHandleKeys(clear_error(@), k)]
      [] highlighted_field_name(sf) = "FixedStrings" ->
           [sf EXCEPT !.fixed_strings = CheckboxHandleKeys(@, k)]
      [] highlighted_field_name(sf) = "PathPattern" ->
           [sf EXCEPT !.path_pattern = TextHandleKeys(clear_error(@), k)]

\* Regex::new / FancyRegex::new: of the texts the model types, those with an
\* unclosed "[" do not compile
CompilesAsRegex(text) == ~Contains(text, "[")

NoPattern == [kind |-> "None", text |-> <<>>]
Pattern(kind, text) == [kind |-> kind, text |-> text]
CompileError == [kind |-> "Err", text |-> <<>>]

search_type(sf) ==
    IF sf.fixed_strings THEN Pattern("Fixed", sf.search.text)
    ELSE IF ~CompilesAsRegex(sf.search.text) THEN CompileError
    ELSE IF sf.advanced_regex THEN Pattern("PatternAdvanced", sf.search.text)
    ELSE Pattern("Pattern", sf.search.text)

path_pattern_parsed(sf) ==
    IF sf.path_pattern.text = <<>> THEN NoPattern
    ELSE IF ~CompilesAsRegex(sf.path_pattern.text) THEN CompileError
    ELSE IF sf.advanced_regex THEN Pattern("PatternAdvanced", sf.path_pattern.text)
    ELSE Pattern("Pattern", sf.path_pattern.text)

ParsedFields(search_pattern, replace_string, path_pattern) ==
    [search_pattern |-> search_pattern, replace_string |-> replace_string,
     path_pattern |-> path_pattern]

NoParsedFields == ParsedFields(CompileError, <<>>, CompileError)

validate_fields_Lenient(sf) ==
    [fields |-> sf,
     parsed |-> ParsedFields(Pattern("Pattern", sf.search.text), sf.replace.text,
                             NoPattern)]

\* validate_fields: the fields afterwards and Some(parsed) or None
validate_fields(sf) ==
    LET s1 == IF search_type(sf) = CompileError
              THEN [sf EXCEPT !.search = set_error(@, RegexErrorShort)]
              ELSE sf
        s2 == IF path_pattern_parsed(s1) = CompileError
              THEN [s1 EXCEPT !.path_pattern = set_error(@, RegexErrorShort)]
              ELSE s1
    IN IF search_type(sf) = CompileError \/ path_pattern_parsed(s1) = CompileError
       THEN [fields |-> [s2 EXCEPT !.show_error_popup = TRUE],
             parsed |-> NoParsedFields]
       ELSE [fields |-> s2,
             parsed |-> ParsedFields(search_type(sf), sf.replace.text,
                                     path_pattern_parsed(sf))]

(***************************************************************************)
(* parsed_fields.rs: the scanner                                           *)
(***************************************************************************)
\* does pat occur in line at 1-based position i
OccursAt(line, pat, i) ==
    /\ i + Len(pat) - 1 <= Len(line)
    /\ \A j \in 1..Len(pat) : line[i + j - 1] = pat[j]

\* str::contains / Regex::is_match for a pattern of literal characters
IsMatch(pat, line) == \E i \in 1..(Len(line) + 1) : OccursAt(line, pat, i)

\* str::replace / Regex::replace_all: leftmost, non-overlapping; the empty
\* pattern matches before every character and at the end
RECURSIVE ReplaceFrom(_, _, _, _)
ReplaceFrom(line, pat, rep, i) ==
    IF i > Len(line) THEN (IF pat = <<>> THEN rep ELSE <<>>)
    ELSE IF pat = <<>> THEN rep \o <<line[i]>> \o ReplaceFrom(line, pat, rep, i + 1)
    ELSE IF OccursAt(line, pat, i) THEN rep \o ReplaceFrom(line, pat, rep, i + Len(pat))
    ELSE <<line[i]>> \o ReplaceFrom(line, pat, rep, i + 1)

ReplaceAll(line, pat, rep) == ReplaceFrom(line, pat, rep, 1)

\* replacement_if_match: line_number is the 0-based enumerate() index
replacement_if_match(pf, path, line, line_number) ==
    IF IsMatch(pf.search_pattern.text, line)
    THEN <<SearchResult(path, line_number + 1, line,
                        ReplaceAll(line, pf.search_pattern.text, pf.replace_string),
                        TRUE, NoResult)>>
    ELSE <<>>

\* content_inspector::inspect: a NUL byte makes the bytes BINARY
NUL == "NUL"
IsBinary(line) == Contains(line, NUL)

BINARY_EXTENSIONS == {"png", "gif", "jpg", "jpeg", "ico", "svg", "pdf"}

\* App::ignore_file (the extensions of the model are lower case)
ignore_file(path) == path.ext \in BINARY_EXTENSIONS

\* the path relative to the root directory, as characters
relative_path_from(path) ==
    CASE path = TxtPath -> <<"f", ".", "t", "x", "t">>
      [] path = TmpPath -> <<"f", ".", "t", "m", "p">>
      [] path = PngPath -> <<"f", ".", "p", "n", "g">>

\* handle_path: the path filter
PassesPathFilter(pf, path) ==
    pf.path_pattern.kind = "None"
        \/ IsMatch(pf.path_pattern.text, relative_path_from(path))

\* handle_path: what one line of a file sends, if anything
LineSends(pf, path, lines, k) ==
    IF IsBinary(lines[k]) THEN <<>>
    ELSE replacement_if_match(pf, path, lines[k], k - 1)

RECURSIVE ScanLines(_, _, _, _)
ScanLines(pf, path, lines, k) ==
    IF k > Len(lines) THEN <<>>
    ELSE LineSends(pf, path, lines, k) \o ScanLines(pf, path, lines, k + 1)

\* handle_path run to its end on one file with a live receiver
ScanFile(pf, path, file) ==
    IF file.exists /\ PassesPathFilter(pf, path)
    THEN ScanLines(pf, path, Lines(file.data), 1)
    ELSE <<>>

\* the query the files of SpecRewrite were searched with
RewriteQuery == ParsedFields(Pattern("Fixed", <<"a">>), <<"c">>, NoPattern)

VARIABLES
    st_results,   \* SpecStats: the slice passed to calculate_statistics
    st_out,       \* SpecStats: the ReplaceState returned, or NoStats
    fs,           \* the files under the root: path -> [exists, data]
    rp_results,   \* search_state.results owned by the replacement task
    rp_pc,        \* position of the replacement task
    rp_pending,   \* path_groups entries not yet iterated
    rp_ret,       \* per path: what replace_in_file returned
    rp_stats,     \* the ReplaceState sent with ReplacementCompleted
    rw_path,      \* file_path of the running replace_in_file
    rw_index,     \* index: lines read so far
    rw_line,      \* line about to be written
    rw_buf,       \* bytes held by the BufWriter
    rw_read,      \* history: the lines next_line returned
    rw_written,   \* history: the lines passed to write_all
    rw_pre,       \* history: content at file_path when the rewrite began
    fs_start      \* history: the files under the root when the model starts

NoStats == [tag |-> "NoStats"]
NoPath == [stem |-> "", ext |-> ""]

VARIABLES
    current_screen,  \* the variant of App::current_screen
    search_fields,   \* App::search_fields
    directory,       \* App::directory
    include_hidden,  \* App::include_hidden
    search_state,    \* the SearchState of SearchProgressing / SearchComplete
    sp_gen,          \* the search whose handle and receiver the screen owns
    replace_state,   \* the ReplaceState of Results
    app_events,      \* AppEvents sent and not yet handled
    exit,            \* a handler returned exit = true: the event loop stopped
    rerender,        \* EventHandlingResult.rerender of the last handler
    nsearch,         \* searches started so far
    task,            \* per search: state of the task of update_search_results
    aborted,         \* per search: abort() was called on the task, which has not ended
    todo,            \* per search: entries the walker has not handed out
    thr,             \* per search and thread: file and line being scanned
    pfs,             \* per search: its ParsedFields
    chan,            \* per search: events sent and not yet received
    rx_open,         \* per search: the receiver has not been dropped
    sentinel_sends,  \* history: per search, sends of SearchCompleted
    now,             \* the clock Instant::now() reads, in ticks
    last_render,     \* SearchInProgressState::last_render
    last_redraw,     \* history: when a handler last returned rerender = true
    send_failed,     \* history: per search, a send of a match returned Err
    rejected         \* history: validate_fields has returned Ok(None) in SpecValidate

statsVars == <<st_results, st_out>>
rwVars == <<rw_path, rw_index, rw_line, rw_buf, rw_read, rw_written, rw_pre>>
rpVars == <<fs, rp_results, rp_pc, rp_pending, rp_ret, rp_stats>>
uiVars == <<current_screen, search_fields, search_state, sp_gen, replace_state,
            app_events, exit, rerender>>
cfgVars == <<directory, include_hidden>>
clockVars == <<now, last_render, last_redraw>>
\* what no handler modelled without a clock changes
histVars == <<fs_start, clockVars, send_failed, rejected>>
swVars == <<nsearch, task, aborted, todo, thr, pfs, chan, rx_open, sentinel_sends>>
appVars == <<uiVars, swVars>>
vars == <<statsVars, rpVars, rwVars, histVars, cfgVars, appVars>>

Gens == 1..MaxSearches
Threads == 1..NumThreads

(***************************************************************************)
(* app.rs: SearchState and ReplaceState operations                         *)
(***************************************************************************)
SearchState(results, selected) == [results |-> results, selected |-> selected]
NoSearchState == SearchState(<<>>, 0)

move_selected_up_NoStep(st) ==
    [st EXCEPT !.selected = IF st.selected = 0 THEN Len(st.results) ELSE st.selected - 1]

move_selected_up(st) ==
    [st EXCEPT !.selected =
        SatSub(IF st.selected = 0 THEN Len(st.results) ELSE st.selected, 1)]

move_selected_down_Sticky(st) ==
    [st EXCEPT !.selected =
        IF st.selected >= SatSub(Len(st.results), 1) THEN st.selected ELSE st.selected + 1]

move_selected_down(st) ==
    [st EXCEPT !.selected =
        IF st.selected >= SatSub(Len(st.results), 1) THEN 0 ELSE st.selected + 1]

toggle_selected_inclusion(st) ==
    IF st.selected < Len(st.results)
    THEN [st EXCEPT !.results[st.selected + 1].included = ~@]
    ELSE [st EXCEPT !.selected = SatSub(Len(st.results), 1)]

toggle_all_selected_EachFlipped(st) ==
    [st EXCEPT !.results =
        [i \in DOMAIN st.results |-> [st.results[i] EXCEPT !.included = ~@]]]

toggle_all_selected(st) ==
    LET all_included == \A i \in DOMAIN st.results : st.results[i].included
    IN [st EXCEPT !.results =
           [i \in DOMAIN st.results |-> [st.results[i] EXCEPT !.included = ~all_included]]]

push_result_Front(st, result, hinted) == [st EXCEPT !.results = <<result>> \o @]

push_result_WhenHinted(st, result, hinted) ==
    IF hinted THEN [st EXCEPT !.results = Append(@, result)] ELSE st

\* the AddSearchResult arm of handle_background_processing_event:
\* results.push(result), whether or not a redraw is hinted
push_result(st, result, hinted) == [st EXCEPT !.results = Append(@, result)]

search_complete_CursorReset(st) == [st EXCEPT !.selected = 0]

\* the SearchCompleted arm of handle_background_processing_event: the
\* SearchState of the in-progress screen is moved into Screen::SearchComplete
search_complete(st) == st

scroll_replacement_errors_up(rs) ==
    [rs EXCEPT !.replacement_errors_pos =
        SatSub(IF rs.replacement_errors_pos = 0 THEN Len(rs.errors)
               ELSE rs.replacement_errors_pos, 1)]

scroll_replacement_errors_down_NoWrap(rs) ==
    [rs EXCEPT !.replacement_errors_pos = @ + 1]

scroll_replacement_errors_down(rs) ==
    [rs EXCEPT !.replacement_errors_pos =
        IF rs.replacement_errors_pos >= SatSub(Len(rs.errors), 1) THEN 0
        ELSE rs.replacement_errors_pos + 1]

(***************************************************************************)
(* event.rs: BackgroundProcessingEvent; `from` records the sending search  *)
(***************************************************************************)
NoMatch == SearchResult(NoPath, 0, <<>>, <<>>, FALSE, NoResult)
AddSearchResult(r, g) ==
    [type |-> "AddSearchResult", result |-> r, stats |-> NoStats, from |-> g]
SearchCompleted(g) ==
    [type |-> "SearchCompleted", result |-> NoMatch, stats |-> NoStats, from |-> g]
ReplacementCompleted(rs) ==
    [type |-> "ReplacementCompleted", result |-> NoMatch, stats |-> rs, from |-> 0]

SenderOf_Latest(g) == nsearch

SenderOf_Shared(g) == IF sp_gen # 0 THEN sp_gen ELSE g

\* the channel the sender held by the workers of search g feeds:
\* perform_search_if_valid hands validate_fields a clone of the sender of
\* the channel it has just created
SenderOf(g) == g

\* UnboundedSender::send: an error once the receiver is dropped
SendOk(g) == rx_open[SenderOf(g)]

Send_Lifo(g, ev) ==
    IF SendOk(g) THEN [chan EXCEPT ![SenderOf(g)] = <<ev>> \o @] ELSE chan

Send(g, ev) ==
    IF SendOk(g) THEN [chan EXCEPT ![SenderOf(g)] = Append(@, ev)] ELSE chan

(***************************************************************************)
(* Parts of the state a specification leaves alone                         *)
(***************************************************************************)
\* the clock starts at zero and is only read by the handlers of SpecClock
ClockIdle ==
    /\ now = 0
    /\ last_render = 0
    /\ last_redraw = 0

StatsIdle ==
    /\ st_results = <<>>
    /\ st_out = NoStats

RewriteIdle ==
    /\ rw_path = NoPath
    /\ rw_index = 0
    /\ rw_line = <<>>
    /\ rw_buf = <<>>
    /\ rw_read = <<>>
    /\ rw_written = <<>>
    /\ rw_pre = Absent

ReplaceIdle ==
    /\ rp_results = <<>>
    /\ rp_pc = "idle"
    /\ rp_pending = {}
    /\ rp_ret = [p \in Paths |-> "none"]
    /\ rp_stats = NoStats
    /\ RewriteIdle

NoThread == [file |-> NoPath, line |-> 0]

WorkersIdle ==
    /\ nsearch = 0
    /\ task = [g \in Gens |-> "none"]
    /\ aborted = [g \in Gens |-> FALSE]
    /\ todo = [g \in Gens |-> {}]
    /\ thr = [g \in Gens |-> [t \in Threads |-> NoThread]]
    /\ pfs = [g \in Gens |-> NoParsedFields]
    /\ chan = [g \in Gens |-> <<>>]
    /\ rx_open = [g \in Gens |-> FALSE]
    /\ sentinel_sends = [g \in Gens |-> 0]

\* the directory argument of the command line; None when it is absent
NoDir == "None"
CurrentDir == "."
RootDir == "dir"

\* App::new: the directory given, or the current directory
new_directory(d) == IF d = NoDir THEN CurrentDir ELSE d

\* App::new
AppNew(advanced_regex) ==
    /\ directory = new_directory(RootDir)
    /\ include_hidden = FALSE
    /\ current_screen = "SearchFields"
    /\ search_fields = with_advanced_regex(with_values(<<>>, <<>>, FALSE, <<>>), advanced_regex)
    /\ search_state = NoSearchState
    /\ sp_gen = 0
    /\ replace_state = NoStats
    /\ app_events = <<>>
    /\ exit = FALSE
    /\ rerender = TRUE

AppIdle == AppNew(FALSE) /\ WorkersIdle

(***************************************************************************)
(* SpecStats                                                               *)
(***************************************************************************)
StatsOutcomes == {NoResult, Success, Error("error"), Error(MsgChanged)}

StatsInputs ==
    UNION { [1..n -> [included : BOOLEAN, replace_result : StatsOutcomes]]
            : n \in 0..MaxStats }

StatsMatch(i, x) ==
    SearchResult([stem |-> "random/file", ext |-> ""], i, <<"f">>, <<"b">>,
                 x.included, x.replace_result)

InitStats ==
    /\ \E xs \in StatsInputs :
         st_results = [i \in 1..Len(xs) |-> StatsMatch(i, xs[i])]
    /\ st_out = NoStats
    /\ fs = [p \in Paths |-> Absent]
    /\ ReplaceIdle
    /\ AppIdle
    /\ fs_start = fs
    /\ ClockIdle
    /\ send_failed = [g \in Gens |-> FALSE]
    /\ rejected = FALSE

CalculateStatistics ==
    /\ st_out = NoStats
    /\ st_out' = calculate_statistics(st_results)
    /\ UNCHANGED <<st_results, rpVars, rwVars, histVars, cfgVars, appVars>>

NextStats == CalculateStatistics

SpecStats == InitStats /\ [][NextStats]_vars

(***************************************************************************)
(* SpecRewrite: the replacement task of perform_replacement                *)
(***************************************************************************)
\* the two files of the directory SpecRewrite rewrites
RewritePaths == {TxtPath, TmpPath}

\* the content of the other file of the directory, when it exists
OtherContent == <<"a", NL>>

SetIncluded(results, flags) ==
    [i \in DOMAIN results |-> [results[i] EXCEPT !.included = flags[i]]]

\* A target file was searched with content `searched` and now holds `current`
\* (or is gone); the other path is absent or holds OtherContent, unchanged
\* since the search.  The user has set any included flags.
InitRewrite ==
    /\ StatsIdle
    /\ RewriteIdle
    /\ AppIdle
    /\ \E t \in RewritePaths, searched \in ContentsUpTo(MaxSearchedLen),
          current \in {Absent} \cup { FileOf(c) : c \in Contents },
          other \in {Absent, FileOf(OtherContent)} :
         LET o == CHOOSE p \in RewritePaths : p # t
             found == ScanFile(RewriteQuery, t, FileOf(searched))
                        \o ScanFile(RewriteQuery, o, other)
         IN /\ fs = [p \in Paths |-> IF p = t THEN current ELSE other]
            /\ \E flags \in [DOMAIN found -> BOOLEAN] :
                 /\ rp_results = SetIncluded(found, flags)
                 /\ rp_pending = PathGroups(SetIncluded(found, flags))
    /\ rp_pc = "group"
    /\ rp_ret = [p \in Paths |-> "none"]
    /\ rp_stats = NoStats
    /\ fs_start = fs
    /\ ClockIdle
    /\ send_failed = [g \in Gens |-> FALSE]
    /\ rejected = FALSE

\* for (path, results) in path_groups: HashMap order is arbitrary
NextGroup ==
    /\ rp_pc = "group"
    /\ \E p \in rp_pending :
         /\ rp_pending' = rp_pending \ {p}
         /\ rw_path' = p
         /\ rw_pre' = fs[p]
    /\ rp_pc' = "open"
    /\ rw_index' = 0
    /\ rw_line' = <<>>
    /\ rw_buf' = <<>>
    /\ rw_read' = <<>>
    /\ rw_written' = <<>>
    /\ UNCHANGED <<histVars, cfgVars, statsVars, appVars, fs, rp_results, rp_ret, rp_stats>>

\* replace_in_file returns or is dropped: its locals are gone
DropLocals ==
    /\ rw_index' = 0
    /\ rw_line' = <<>>
    /\ rw_buf' = <<>>
    /\ rw_read' = <<>>
    /\ rw_written' = <<>>
    /\ UNCHANGED <<rw_path, rw_pre>>

\* `?` in replace_in_file, then the Err arm of perform_replacement
FailRewrite(step) ==
    /\ rp_results' = MarkFileError(rp_results, rw_path, IoError(step))
    /\ rp_ret' = [rp_ret EXCEPT ![rw_path] = "err"]
    /\ rp_pc' = "group"
    /\ DropLocals
    /\ UNCHANGED <<histVars, cfgVars, statsVars, appVars, fs, rp_pending, rp_stats>>

\* File::open(file_path).await?
OpenInput ==
    /\ rp_pc = "open"
    /\ \/ /\ fs[rw_path].exists
          /\ rp_pc' = "create"
          /\ UNCHANGED <<histVars, cfgVars, statsVars, appVars, fs, rp_results, rp_pending, rp_ret, rp_stats, rwVars>>
       \/ FailRewrite("open")

\* File::create(temp_file_path).await?  creates or truncates
CreateTemp ==
    /\ rp_pc = "create"
    /\ \/ /\ fs' = [fs EXCEPT ![TempPath(rw_path)] = FileOf(<<>>)]
          /\ rp_pc' = "read"
          /\ UNCHANGED <<histVars, cfgVars, statsVars, appVars, rp_results, rp_pending, rp_ret, rp_stats, rwVars>>
       \/ FailRewrite("create")

\* lines.next_line().await?  and the body of the while loop up to write_all
ReadLine ==
    /\ rp_pc = "read"
    /\ \/ /\ rw_index < Len(Lines(fs[rw_path].data))
          /\ LET line == Lines(fs[rw_path].data)[rw_index + 1]
                 k == LineMapGet(rp_results, rw_path, rw_index + 1)
             IN /\ rw_read' = Append(rw_read, line)
                /\ rw_line' = IF k = 0 THEN line
                              ELSE LineOutcome(line, rp_results[k]).out
                /\ rp_results' =
                     IF k = 0 THEN rp_results
                     ELSE [rp_results EXCEPT ![k].replace_result =
                               LineOutcome(line, rp_results[k]).result]
          /\ rp_pc' = "write"
          /\ UNCHANGED <<histVars, cfgVars, statsVars, appVars, fs, rp_pending, rp_ret, rp_stats,
                         rw_path, rw_index, rw_buf, rw_written, rw_pre>>
       \/ /\ rw_index >= Len(Lines(fs[rw_path].data))
          /\ rp_pc' = "flush"
          /\ UNCHANGED <<histVars, cfgVars, statsVars, appVars, fs, rp_results, rp_pending, rp_ret, rp_stats, rwVars>>
       \/ FailRewrite("read")

\* writer.write_all(line.as_bytes()).await?; index += 1
\* the BufWriter keeps the bytes, or writes its buffer out when it is full
WriteLine ==
    /\ rp_pc = "write"
    /\ \/ /\ \/ /\ rw_buf' = rw_buf \o rw_line
                /\ UNCHANGED fs
             \/ /\ rw_buf # <<>>
                /\ fs' = [fs EXCEPT ![TempPath(rw_path)].data = @ \o rw_buf]
                /\ rw_buf' = rw_line
          /\ rw_written' = Append(rw_written, rw_line)
          /\ rw_index' = rw_index + 1
          /\ rp_pc' = "read"
          /\ UNCHANGED <<histVars, cfgVars, statsVars, appVars, rp_results, rp_pending, rp_ret, rp_stats,
                         rw_path, rw_line, rw_read, rw_pre>>
       \/ FailRewrite("write")

\* writer.flush().await?
FlushTemp ==
    /\ rp_pc = "flush"
    /\ \/ /\ fs' = [fs EXCEPT ![TempPath(rw_path)].data = @ \o rw_buf]
          /\ rw_buf' = <<>>
          /\ rp_pc' = "rename"
          /\ UNCHANGED <<histVars, cfgVars, statsVars, appVars, rp_results, rp_pending, rp_ret, rp_stats,
                         rw_path, rw_index, rw_line, rw_read, rw_written, rw_pre>>
       \/ FailRewrite("flush")

\* fs::rename(temp_file_path, file_path).await?; Ok(())
RenameTemp ==
    /\ rp_pc = "rename"
    /\ \/ /\ fs' = IF TempPath(rw_path) = rw_path THEN fs
                   ELSE [fs EXCEPT ![rw_path] = fs[TempPath(rw_path)],
                                   ![TempPath(rw_path)] = Absent]
          /\ rp_ret' = [rp_ret EXCEPT ![rw_path] = "ok"]
          /\ rp_pc' = "group"
          /\ DropLocals
          /\ UNCHANGED <<histVars, cfgVars, statsVars, appVars, rp_results, rp_pending, rp_stats>>
       \/ FailRewrite("rename")

\* after the loop: calculate_statistics and the ReplacementCompleted send
FinishReplacement ==
    /\ rp_pc = "group"
    /\ rp_pending = {}
    /\ rp_stats' = calculate_statistics(rp_results)
    /\ rp_pc' = "done"
    /\ UNCHANGED <<histVars, cfgVars, statsVars, appVars, fs, rp_results, rp_pending, rp_ret, rwVars>>

\* cancel_replacement: handle.abort() stops the task at an await point
AbortReplacement ==
    /\ rp_pc \in {"open", "create", "read", "write", "flush", "rename"}
    /\ rp_pc' = "aborted"
    /\ DropLocals
    /\ UNCHANGED <<histVars, cfgVars, statsVars, appVars, fs, rp_results, rp_pending, rp_ret, rp_stats>>

NextRewrite ==
    \/ NextGroup
    \/ OpenInput
    \/ CreateTemp
    \/ ReadLine
    \/ WriteLine
    \/ FlushTemp
    \/ RenameTemp
    \/ FinishReplacement
    \/ AbortReplacement

SpecRewrite == InitRewrite /\ [][NextRewrite]_vars

(***************************************************************************)
(* Spec: the application -- form, key handlers, search workers, reducer.   *)
(* A replacement the user confirms is spawned; its steps are SpecRewrite's *)
(***************************************************************************)
\* longest text the model types into a field
MaxText == 1

\* the directory the application is started in: one file of two lines
AppTree ==
    [p \in Paths |-> IF p = TxtPath THEN FileOf(<<"o", NL, "b">>) ELSE Absent]

\* the application as App::new leaves it (started without --advanced-regex)
Init ==
    /\ StatsIdle
    /\ fs = AppTree
    /\ ReplaceIdle
    /\ AppNew(FALSE)
    /\ WorkersIdle
    /\ fs_start = fs
    /\ ClockIdle
    /\ send_failed = [g \in Gens |-> FALSE]
    /\ rejected = FALSE

\* the screen holds a SearchInProgressState: handle, sender and receiver
OwnsSearch == current_screen = "SearchProgressing"

CancelSearch_Detach == UNCHANGED <<aborted, task, pfs>>

\* cancel_search: abort() stops a task that was never polled; a task inside
\* walker.run has no await point left to stop at
CancelSearch ==
    /\ aborted' = IF OwnsSearch /\ task[sp_gen] = "walking"
                  THEN [aborted EXCEPT ![sp_gen] = TRUE]
                  ELSE aborted
    /\ task' = IF OwnsSearch /\ task[sp_gen] = "spawned"
               THEN [task EXCEPT ![sp_gen] = "cancelled"]
               ELSE task
    /\ pfs' = IF OwnsSearch /\ task[sp_gen] = "spawned"
              THEN [pfs EXCEPT ![sp_gen] = NoParsedFields]
              ELSE pfs

\* the receiver after the value of current_screen is dropped
RxAfterDrop == IF OwnsSearch THEN [rx_open EXCEPT ![sp_gen] = FALSE] ELSE rx_open
ChanAfterDrop == IF OwnsSearch THEN [chan EXCEPT ![sp_gen] = <<>>] ELSE chan

\* cancel_replacement
CancelReplacement ==
    IF current_screen = "PerformingReplacement"
          /\ rp_pc \in {"group", "open", "create", "read", "write", "flush", "rename"}
    THEN /\ rp_pc' = "aborted"
         /\ DropLocals
         /\ UNCHANGED <<rp_results, rp_pending, rp_ret, rp_stats>>
    ELSE UNCHANGED <<rp_results, rp_pc, rp_pending, rp_ret, rp_stats, rwVars>>

\* App::reset
Reset ==
    /\ CancelSearch
    /\ CancelReplacement
    /\ current_screen' = "SearchFields"
    /\ search_fields' = with_advanced_regex(with_values(<<>>, <<>>, FALSE, <<>>),
                                            search_fields.advanced_regex)
    /\ search_state' = NoSearchState
    /\ sp_gen' = 0
    /\ replace_state' = NoStats
    /\ directory' = new_directory(directory)
    /\ include_hidden' = include_hidden
    /\ rx_open' = RxAfterDrop
    /\ chan' = ChanAfterDrop
    /\ UNCHANGED <<histVars, statsVars, fs, app_events, nsearch, todo, thr, sentinel_sends>>

TextsFit(sf) ==
    /\ Len(sf.search.text) <= MaxText
    /\ Len(sf.replace.text) <= MaxText
    /\ Len(sf.path_pattern.text) <= MaxText

PopupBlocksKeys_Never(sf) == FALSE

\* handle_key_searching: `if self.search_fields.show_error_popup`
PopupBlocksKeys(sf) == sf.show_error_popup

\* handle_key_searching
handle_key_searching(k) ==
    /\ IF PopupBlocksKeys(search_fields)
       THEN /\ search_fields' = [search_fields EXCEPT !.show_error_popup = FALSE]
            /\ UNCHANGED app_events
       ELSE IF k.code = "Enter"
       THEN /\ Len(app_events) < MaxAppEvents
            /\ app_events' = Append(app_events, "PerformSearch")
            /\ UNCHANGED search_fields
       ELSE IF k.code = "BackTab" \/ (k.code = "Tab" /\ k.mod = "ALT")
       THEN /\ search_fields' = focus_prev(search_fields)
            /\ UNCHANGED app_events
       ELSE IF k.code = "Tab"
       THEN /\ search_fields' = focus_next(search_fields)
            /\ UNCHANGED app_events
       ELSE /\ search_fields' =
                 HighlightedHandleKeys(
                     IF highlighted_field_name(search_fields) = "FixedStrings"
                     THEN [search_fields EXCEPT !.search = clear_error(@)]
                     ELSE search_fields, k)
            /\ TextsFit(search_fields')
            /\ UNCHANGED app_events
    /\ exit' = FALSE
    /\ UNCHANGED <<histVars, cfgVars, statsVars, rpVars, rwVars, swVars, current_screen, search_state,
                   sp_gen, replace_state>>

Confirmable_InProgress == current_screen \in {"SearchProgressing", "SearchComplete"}

\* trigger_replacement: `if let Screen::SearchComplete(search_state)`
Confirmable == current_screen = "SearchComplete"

\* trigger_replacement on Screen::SearchComplete: perform_replacement is
\* spawned with the search state moved into it; on any other screen the
\* screen taken by mem::replace is put back
trigger_replacement ==
    IF Confirmable
    THEN /\ rp_pc \in {"idle", "done", "aborted"}  \* one replacement task at a time
         /\ current_screen' = "PerformingReplacement"
         /\ search_state' = NoSearchState
         /\ rp_results' = search_state.results
         /\ rp_pending' = PathGroups(search_state.results)
         /\ rp_pc' = "group"
         /\ rp_ret' = [p \in Paths |-> "none"]
         /\ rp_stats' = NoStats
         /\ rw_path' = NoPath
         /\ rw_pre' = Absent
         /\ rw_index' = 0
         /\ rw_line' = <<>>
         /\ rw_buf' = <<>>
         /\ rw_read' = <<>>
         /\ rw_written' = <<>>
    ELSE UNCHANGED <<current_screen, search_state, rp_results, rp_pc, rp_pending,
                     rp_ret, rp_stats, rwVars>>

\* handle_key_confirmation
handle_key_confirmation(k) ==
    /\ IF (k.code = "Char" /\ k.ch = "j") \/ k.code = "Down"
             \/ (k.code = "Char" /\ k.ch = "n" /\ k.mod = "CONTROL")
       THEN /\ search_state' = move_selected_down(search_state)
            /\ UNCHANGED <<current_screen, sp_gen, app_events, swVars, rp_results, rp_pc,
                           rp_pending, rp_ret, rp_stats, rwVars>>
       ELSE IF (k.code = "Char" /\ k.ch = "k") \/ k.code = "Up"
             \/ (k.code = "Char" /\ k.ch = "p" /\ k.mod = "CONTROL")
       THEN /\ search_state' = move_selected_up(search_state)
            /\ UNCHANGED <<current_screen, sp_gen, app_events, swVars, rp_results, rp_pc,
                           rp_pending, rp_ret, rp_stats, rwVars>>
       ELSE IF k.code = "Char" /\ k.ch = " "
       THEN /\ search_state' = toggle_selected_inclusion(search_state)
            /\ UNCHANGED <<current_screen, sp_gen, app_events, swVars, rp_results, rp_pc,
                           rp_pending, rp_ret, rp_stats, rwVars>>
       ELSE IF k.code = "Char" /\ k.ch = "a"
       THEN /\ search_state' = toggle_all_selected(search_state)
            /\ UNCHANGED <<current_screen, sp_gen, app_events, swVars, rp_results, rp_pc,
                           rp_pending, rp_ret, rp_stats, rwVars>>
       ELSE IF k.code = "Enter"
       THEN /\ trigger_replacement
            /\ UNCHANGED <<sp_gen, app_events, swVars>>
       ELSE IF k.code = "Char" /\ k.ch = "o" /\ k.mod = "CONTROL"
       THEN /\ Len(app_events) < MaxAppEvents
            /\ CancelSearch
            /\ current_screen' = "SearchFields"
            /\ search_state' = NoSearchState
            /\ sp_gen' = 0
            /\ rx_open' = RxAfterDrop
            /\ chan' = ChanAfterDrop
            /\ app_events' = Append(app_events, "Rerender")
            /\ UNCHANGED <<nsearch, todo, thr, sentinel_sends, rp_results,
                           rp_pc, rp_pending, rp_ret, rp_stats, rwVars>>
       ELSE UNCHANGED <<current_screen, search_state, sp_gen, app_events, swVars,
                        rp_results, rp_pc, rp_pending, rp_ret, rp_stats, rwVars>>
    /\ exit' = FALSE
    /\ UNCHANGED <<histVars, cfgVars, statsVars, fs, search_fields, replace_state>>

\* ReplaceState::handle_key_results
handle_key_results(k) ==
    /\ IF (k.code = "Char" /\ k.ch = "j") \/ k.code = "Down"
             \/ (k.code = "Char" /\ k.ch = "n" /\ k.mod = "CONTROL")
       THEN replace_state' = scroll_replacement_errors_down(replace_state) /\ exit' = FALSE
       ELSE IF (k.code = "Char" /\ k.ch = "k") \/ k.code = "Up"
             \/ (k.code = "Char" /\ k.ch = "p" /\ k.mod = "CONTROL")
       THEN replace_state' = scroll_replacement_errors_up(replace_state) /\ exit' = FALSE
       ELSE IF (k.code = "Char" /\ k.ch \in {"d", "u"} /\ k.mod = "CONTROL")
             \/ k.code \in {"PageDown", "PageUp"}
       THEN UNCHANGED replace_state /\ exit' = FALSE
       ELSE IF k.code = "Enter" \/ (k.code = "Char" /\ k.ch = "q")
       THEN UNCHANGED replace_state /\ exit' = TRUE
       ELSE UNCHANGED replace_state /\ exit' = FALSE
    /\ UNCHANGED <<histVars, cfgVars, statsVars, rpVars, rwVars, swVars, current_screen, search_fields,
                   search_state, sp_gen, app_events>>

\* the keys the user presses
Keys == {KeyEnter, KeyEsc, Char("["), Ctrl("o"), Ctrl("r")}

QuitKey_PopupOrNot(k) ==
    k.code = "Esc" \/ (k.code = "Char" /\ k.ch = "c" /\ k.mod = "CONTROL")

\* (KeyCode::Esc, _) | (KeyCode::Char('c'), KeyModifiers::CONTROL)
\*     if !self.search_fields.show_error_popup
QuitKey_CtrlCUnguarded(k) ==
    \/ k.code = "Esc" /\ ~search_fields.show_error_popup
    \/ k.code = "Char" /\ k.ch = "c" /\ k.mod = "CONTROL"

QuitKey(k) ==
    /\ k.code = "Esc" \/ (k.code = "Char" /\ k.ch = "c" /\ k.mod = "CONTROL")
    /\ ~search_fields.show_error_popup

\* handle_key_events, for a key press
HandleKeyEvents(k) ==
    /\ ~exit
    /\ rerender' = TRUE
    /\ IF QuitKey(k)
       THEN Reset /\ exit' = TRUE
       ELSE IF k.code = "Char" /\ k.ch = "r" /\ k.mod = "CONTROL"
       THEN Reset /\ exit' = FALSE
       ELSE CASE current_screen = "SearchFields" -> handle_key_searching(k)
              [] current_screen \in {"SearchProgressing", "SearchComplete"} ->
                   handle_key_confirmation(k)
              [] current_screen = "PerformingReplacement" ->
                   UNCHANGED <<histVars, cfgVars, statsVars, rpVars, rwVars, swVars, current_screen,
                               search_fields, search_state, sp_gen, replace_state,
                               app_events, exit>>
              [] current_screen = "Results" -> handle_key_results(k)

KeyPress == \E k \in Keys : HandleKeyEvents(k)

\* perform_search_if_valid
perform_search_if_valid ==
    LET v == validate_fields(search_fields)
        g == nsearch + 1
    IN /\ search_fields' = v.fields
       /\ search_state' = NoSearchState
       /\ replace_state' = NoStats
       /\ IF v.parsed = NoParsedFields
          THEN /\ current_screen' = "SearchFields"
               /\ sp_gen' = 0
               /\ rx_open' = RxAfterDrop
               /\ chan' = ChanAfterDrop
               /\ UNCHANGED <<nsearch, task, pfs>>
          ELSE /\ nsearch < MaxSearches
               /\ current_screen' = "SearchProgressing"
               /\ sp_gen' = g
               /\ nsearch' = g
               /\ task' = [task EXCEPT ![g] = "spawned"]
               /\ pfs' = [pfs EXCEPT ![g] = v.parsed]
               /\ rx_open' = [RxAfterDrop EXCEPT ![g] = TRUE]
               /\ chan' = ChanAfterDrop
       /\ UNCHANGED <<aborted, todo, thr, sentinel_sends>>

\* the event loop takes an AppEvent: handle_app_event
\* App::handle_app_event on the event app_event_recv returned
handle_app_event ==
    /\ ~exit
    /\ app_events # <<>>
    /\ app_events' = Tail(app_events)
    /\ IF Head(app_events) = "PerformSearch"
       THEN perform_search_if_valid
       ELSE UNCHANGED <<current_screen, search_fields, search_state, sp_gen,
                        replace_state, swVars>>
    /\ rerender' = TRUE
    /\ UNCHANGED <<cfgVars, statsVars, rpVars, rwVars, exit>>

HandleAppEvent ==
    /\ handle_app_event
    /\ UNCHANGED histVars

\* handle_background_processing_event, on any screen; ch is what the
\* channels hold once the event is taken.  A Screen value that is replaced
\* is dropped with the receiver and the JoinHandle it owns; no abort() is
\* called.
handle_background_processing_event(ev, ch) ==
    CASE ev.type = "AddSearchResult" ->
           /\ IF current_screen = "SearchProgressing"
              THEN \E elapsed \in BOOLEAN :  \* last_render.elapsed() >= 100ms
                     /\ search_state' = push_result(search_state, ev.result, elapsed)
                     /\ rerender' = elapsed
              ELSE /\ rerender' = FALSE
                   /\ UNCHANGED search_state
           /\ chan' = ch
           /\ UNCHANGED <<current_screen, sp_gen, replace_state, rx_open>>
      [] ev.type = "SearchCompleted" ->
           /\ IF current_screen = "SearchProgressing"
              THEN /\ current_screen' = "SearchComplete"
                   /\ search_state' = search_complete(search_state)
                   /\ UNCHANGED sp_gen
              ELSE /\ current_screen' = "SearchFields"
                   /\ search_state' = NoSearchState
                   /\ sp_gen' = 0
           /\ replace_state' = NoStats
           /\ rx_open' = RxAfterDrop
           /\ chan' = IF OwnsSearch THEN [ch EXCEPT ![sp_gen] = <<>>] ELSE ch
           /\ rerender' = TRUE
      [] ev.type = "ReplacementCompleted" ->
           /\ current_screen' = "Results"
           /\ replace_state' = ev.stats
           /\ search_state' = NoSearchState
           /\ rx_open' = RxAfterDrop
           /\ chan' = IF OwnsSearch THEN [ch EXCEPT ![sp_gen] = <<>>] ELSE ch
           /\ rerender' = TRUE
           /\ UNCHANGED sp_gen

\* the event loop takes an event of the search from background_processing_recv
\* and passes it to handle_background_processing_event
\* App::background_processing_recv on SearchProgressing, and the handler on
\* the event it returned
background_processing_recv ==
    /\ ~exit
    /\ current_screen = "SearchProgressing"
    /\ chan[sp_gen] # <<>>
    /\ handle_background_processing_event(Head(chan[sp_gen]),
                                          [chan EXCEPT ![sp_gen] = Tail(@)])
    /\ UNCHANGED <<cfgVars, statsVars, rpVars, rwVars, search_fields,
                   app_events, exit, nsearch, task, aborted, todo, thr, pfs,
                   sentinel_sends>>

ReceiveSearchEvent ==
    /\ background_processing_recv
    /\ UNCHANGED histVars

\* the event loop takes ReplacementCompleted from background_processing_recv
\* and passes it to handle_background_processing_event; the task has ended
ReceiveReplacementCompleted ==
    /\ ~exit
    /\ current_screen = "PerformingReplacement"
    /\ rp_pc = "done"
    /\ handle_background_processing_event(ReplacementCompleted(rp_stats), chan)
    /\ rp_pc' = "idle"
    /\ rp_results' = <<>>
    /\ rp_ret' = [p \in Paths |-> "none"]
    /\ rp_stats' = NoStats
    /\ rw_path' = NoPath
    /\ rw_pre' = Absent
    /\ UNCHANGED <<histVars, cfgVars, statsVars, fs, rp_pending, rw_index, rw_line, rw_buf,
                   rw_read, rw_written, search_fields, app_events, exit,
                   nsearch, task, aborted, todo, thr, pfs, sentinel_sends>>

\* the spawned task is polled: walker.run starts
WorkerStart(g) ==
    /\ ~exit
    /\ task[g] = "spawned"
    /\ task' = [task EXCEPT ![g] = "walking"]
    /\ todo' = [todo EXCEPT ![g] = { p \in Paths : fs[p].exists }]
    /\ UNCHANGED <<histVars, cfgVars, statsVars, rpVars, rwVars, uiVars, nsearch, aborted, thr, pfs, chan,
                   rx_open, sentinel_sends>>

\* a scanner thread gets an entry: ignore_file and the start of handle_path
TakeEntry(g, t) ==
    /\ ~exit
    /\ task[g] = "walking"
    /\ thr[g][t] = NoThread
    /\ \E p \in todo[g] :
         /\ todo' = [todo EXCEPT ![g] = @ \ {p}]
         /\ thr' = IF ignore_file(p) \/ ~PassesPathFilter(pfs[g], p)
                        \/ ~fs[p].exists \/ Lines(fs[p].data) = <<>>
                   THEN thr
                   ELSE [thr EXCEPT ![g][t] = [file |-> p, line |-> 1]]
    /\ UNCHANGED <<histVars, cfgVars, statsVars, rpVars, rwVars, uiVars, nsearch, task, aborted, pfs, chan,
                   rx_open, sentinel_sends>>

\* handle_path: one iteration of the loop over the lines
\* a scanner thread that unwound from a panic
Panicked == [file |-> NoPath, line |-> -1]

ReturnOnSendError_Unwrap(th) == Panicked

\* handle_path: `if send_result.is_err() { return; }`
ReturnOnSendError(th) == NoThread

ScanLine(g, t) ==
    /\ ~exit
    /\ thr[g][t] # NoThread
    /\ LET p == thr[g][t].file
           k == thr[g][t].line
           lines == IF fs[p].exists THEN Lines(fs[p].data) ELSE <<>>
           sends == IF k <= Len(lines) THEN LineSends(pfs[g], p, lines, k) ELSE <<>>
       IN IF sends # <<>> /\ ~SendOk(g)
          THEN /\ thr' = [thr EXCEPT ![g][t] = ReturnOnSendError(@)]
               /\ send_failed' = [send_failed EXCEPT ![g] = TRUE]
               /\ UNCHANGED chan
          ELSE /\ chan' = IF sends # <<>> THEN Send(g, AddSearchResult(sends[1], g))
                          ELSE chan
               /\ thr' = [thr EXCEPT ![g][t] =
                             IF k >= Len(lines) THEN NoThread
                             ELSE [file |-> p, line |-> k + 1]]
               /\ UNCHANGED send_failed
    /\ UNCHANGED <<fs_start, clockVars, rejected, cfgVars, statsVars, rpVars, rwVars, uiVars,
                   nsearch, task, aborted, todo, pfs, rx_open, sentinel_sends>>

WalkerDone_Early(g) == todo[g] = {}

\* walker.run returns when every entry is handed out and every thread is back
WalkerDone(g) ==
    /\ todo[g] = {}
    /\ \A t \in Threads : thr[g][t] = NoThread

\* after walker.run: the send of SearchCompleted, and the task ends
WorkerFinish(g) ==
    /\ ~exit
    /\ task[g] = "walking"
    /\ WalkerDone(g)
    /\ chan' = Send(g, SearchCompleted(g))
    /\ sentinel_sends' = [sentinel_sends EXCEPT ![g] = @ + 1]
    /\ task' = [task EXCEPT ![g] = "done"]
    /\ aborted' = [aborted EXCEPT ![g] = FALSE]
    /\ pfs' = [pfs EXCEPT ![g] = NoParsedFields]
    /\ UNCHANGED <<histVars, cfgVars, statsVars, rpVars, rwVars, uiVars, nsearch, todo, thr, rx_open>>

Next ==
    \/ KeyPress
    \/ HandleAppEvent
    \/ ReceiveSearchEvent
    \/ \E g \in Gens : WorkerStart(g)
    \/ \E g \in Gens, t \in Threads : TakeEntry(g, t)
    \/ \E g \in Gens, t \in Threads : ScanLine(g, t)
    \/ \E g \in Gens : WorkerFinish(g)

Spec == Init /\ [][Next]_vars

(***************************************************************************)
(* SpecSearch: one search over a directory of several files                *)
(***************************************************************************)
\* a binary line, a line without "o", lines with "o"; an ignored extension
SearchTree ==
    [p \in Paths |->
        CASE p = TxtPath -> FileOf(<<"o", NUL, NL, "b", NL, "o">>)
          [] p = TmpPath -> FileOf(<<"o", NL, "o">>)
          [] p = PngPath -> FileOf(<<"o">>)]

\* the application on the form after Ctrl-R, when all searches but the last
\* the model follows have run to their end
InitSearch ==
    /\ StatsIdle
    /\ fs = SearchTree
    /\ ReplaceIdle
    /\ AppNew(FALSE)
    /\ nsearch = MaxSearches - 1
    /\ task = [g \in Gens |-> IF g < MaxSearches THEN "done" ELSE "none"]
    /\ sentinel_sends = [g \in Gens |-> IF g < MaxSearches THEN 1 ELSE 0]
    /\ aborted = [g \in Gens |-> FALSE]
    /\ todo = [g \in Gens |-> {}]
    /\ thr = [g \in Gens |-> [t \in Threads |-> NoThread]]
    /\ pfs = [g \in Gens |-> NoParsedFields]
    /\ chan = [g \in Gens |-> <<>>]
    /\ rx_open = [g \in Gens |-> FALSE]
    /\ fs_start = fs
    /\ ClockIdle
    /\ send_failed = [g \in Gens |-> FALSE]
    /\ rejected = FALSE

SpecSearch == InitSearch /\ [][Next]_vars

(***************************************************************************)
(* SpecBrowse: one search, while the user moves over and toggles results   *)
(***************************************************************************)
BrowseKeys == {KeyEnter, Char("j"), Char("k"), Char(" "), Char("a")}

KeyPressBrowse == \E k \in BrowseKeys : HandleKeyEvents(k)

NextBrowse ==
    \/ KeyPressBrowse
    \/ HandleAppEvent
    \/ ReceiveSearchEvent
    \/ \E g \in Gens : WorkerStart(g)
    \/ \E g \in Gens, t \in Threads : TakeEntry(g, t)
    \/ \E g \in Gens, t \in Threads : ScanLine(g, t)
    \/ \E g \in Gens : WorkerFinish(g)

SpecBrowse == InitSearch /\ [][NextBrowse]_vars

(***************************************************************************)
(* SpecConfirm: a completed search is confirmed; the replacement task and  *)
(* the event loop run to the results screen                                *)
(***************************************************************************)
ConfirmTree ==
    [p \in Paths |->
        CASE p = TxtPath -> FileOf(<<"o", NL, "b">>)
          [] p = TmpPath -> FileOf(<<"o">>)
          [] p = PngPath -> Absent]

\* the form after "o" was typed into the Search field
ConfirmForm ==
    [with_values(<<>>, <<>>, FALSE, <<>>) EXCEPT !.search = enter_char(@, "o")]

\* the search of ConfirmForm over ConfirmTree has completed; the user has
\* set included flags; the form was submitted once, or twice before the
\* first PerformSearch was handled, so that one is still to be handled
InitConfirm ==
    /\ StatsIdle
    /\ fs = ConfirmTree
    /\ ReplaceIdle
    /\ directory = new_directory(RootDir)
    /\ include_hidden = FALSE
    /\ current_screen = "SearchComplete"
    /\ search_fields = ConfirmForm
    /\ LET pf == validate_fields(ConfirmForm).parsed
           a == ScanFile(pf, TxtPath, ConfirmTree[TxtPath])
           b == ScanFile(pf, TmpPath, ConfirmTree[TmpPath])
       IN \E found \in {a \o b, b \o a} : \E flags \in [DOMAIN found -> BOOLEAN] :
            search_state = SearchState(SetIncluded(found, flags), 0)
    /\ sp_gen = 1
    /\ replace_state = NoStats
    /\ app_events \in {<<>>, <<"PerformSearch">>}
    /\ exit = FALSE
    /\ rerender = TRUE
    /\ nsearch = 1
    /\ task = [g \in Gens |-> IF g = 1 THEN "done" ELSE "none"]
    /\ sentinel_sends = [g \in Gens |-> IF g = 1 THEN 1 ELSE 0]
    /\ aborted = [g \in Gens |-> FALSE]
    /\ todo = [g \in Gens |-> {}]
    /\ thr = [g \in Gens |-> [t \in Threads |-> NoThread]]
    /\ pfs = [g \in Gens |-> NoParsedFields]
    /\ chan = [g \in Gens |-> <<>>]
    /\ rx_open = [g \in Gens |-> FALSE]
    /\ fs_start = fs
    /\ ClockIdle
    /\ send_failed = [g \in Gens |-> FALSE]
    /\ rejected = FALSE

ConfirmKeys == {KeyEnter, Char("j"), Char("k")}

KeyPressConfirm == \E k \in ConfirmKeys : HandleKeyEvents(k)

\* the steps of the task of perform_replacement
RewriteStep ==
    \/ NextGroup
    \/ OpenInput
    \/ CreateTemp
    \/ ReadLine
    \/ WriteLine
    \/ FlushTemp
    \/ RenameTemp
    \/ FinishReplacement

\* the steps of the tasks of update_search_results
SearchStep ==
    \/ \E g \in Gens : WorkerStart(g)
    \/ \E g \in Gens, t \in Threads : TakeEntry(g, t)
    \/ \E g \in Gens, t \in Threads : ScanLine(g, t)
    \/ \E g \in Gens : WorkerFinish(g)

NextConfirm ==
    \/ KeyPressConfirm
    \/ HandleAppEvent
    \/ ReceiveSearchEvent
    \/ ReceiveReplacementCompleted
    \/ RewriteStep
    \/ SearchStep

\* the runtime runs every spawned task, and the event loop takes every
\* event that waits in one of its channels; the user need not press a key
FairConfirm ==
    /\ WF_vars(RewriteStep)
    /\ WF_vars(SearchStep)
    /\ WF_vars(HandleAppEvent)
    /\ WF_vars(ReceiveSearchEvent)
    /\ WF_vars(ReceiveReplacementCompleted)

SpecConfirm == InitConfirm /\ [][NextConfirm]_vars /\ FairConfirm

(***************************************************************************)
(* SpecKeys: the whole application under every key of handle_key_events:   *)
(* form, one search, its confirmation, the replacement task and Results    *)
(***************************************************************************)
\* the application started with --hidden and --advanced-regex, on the form
\* after Ctrl-R, when all searches but the last the model follows have run
\* to their end
InitKeys ==
    /\ StatsIdle
    /\ fs = AppTree
    /\ ReplaceIdle
    /\ directory = new_directory(RootDir)
    /\ include_hidden = TRUE
    /\ current_screen = "SearchFields"
    /\ search_fields = with_advanced_regex(with_values(<<>>, <<>>, FALSE, <<>>), TRUE)
    /\ search_state = NoSearchState
    /\ sp_gen = 0
    /\ replace_state = NoStats
    /\ app_events = <<>>
    /\ exit = FALSE
    /\ rerender = TRUE
    /\ nsearch = MaxSearches - 1
    /\ task = [g \in Gens |-> IF g < MaxSearches THEN "done" ELSE "none"]
    /\ sentinel_sends = [g \in Gens |-> IF g < MaxSearches THEN 1 ELSE 0]
    /\ aborted = [g \in Gens |-> FALSE]
    /\ todo = [g \in Gens |-> {}]
    /\ thr = [g \in Gens |-> [t \in Threads |-> NoThread]]
    /\ pfs = [g \in Gens |-> NoParsedFields]
    /\ chan = [g \in Gens |-> <<>>]
    /\ rx_open = [g \in Gens |-> FALSE]
    /\ fs_start = fs
    /\ ClockIdle
    /\ send_failed = [g \in Gens |-> FALSE]
    /\ rejected = FALSE

AllKeys ==
    {KeyEnter, KeyEsc, KeyBackspace, Ctrl("c"), Ctrl("r"), Ctrl("o"), Char("j"), Char(" "),
     Char("[")}

KeyPressAny == \E k \in AllKeys : HandleKeyEvents(k)

NextKeys ==
    \/ KeyPressAny
    \/ HandleAppEvent
    \/ ReceiveSearchEvent
    \/ ReceiveReplacementCompleted
    \/ RewriteStep
    \/ SearchStep

SpecKeys == InitKeys /\ [][NextKeys]_vars

(***************************************************************************)
(* SpecLists: the cursor and toggle operations of SearchState and the      *)
(* scroll operations of ReplaceState, over lists of bounded length         *)
(***************************************************************************)
\* longest result list of SpecLists
MaxResults == 4

RECURSIVE JoinLines(_)
JoinLines(ls) ==
    IF ls = <<>> THEN <<>>
    ELSE IF Len(ls) = 1 THEN ls[1]
    ELSE ls[1] \o <<NL>> \o JoinLines(Tail(ls))

\* a directory whose one file has the given lines
ListTree(ls) ==
    [p \in Paths |-> IF p = TxtPath /\ ls # <<>> THEN FileOf(JoinLines(ls)) ELSE Absent]

ListOutcomes == {NoResult, Success, Error(MsgChanged)}

\* the line replace_in_file writes for a match with outcome o: the line of
\* a match that is not included, the replacement, or the line found changed
LineAfter(r, o) ==
    CASE o = NoResult -> r.line
      [] o = Success -> r.replacement
      [] OTHER -> <<"b">>

\* write_all(line.as_bytes()) for each line in turn
RECURSIVE WrittenBytes(_)
WrittenBytes(ls) == IF ls = <<>> THEN <<>> ELSE Head(ls) \o WrittenBytes(Tail(ls))

\* the directory after the replacement task: a file without an included
\* match is not touched
RewrittenTree(found, outs) ==
    IF \A i \in DOMAIN found : outs[i] = NoResult
    THEN ListTree([i \in DOMAIN found |-> found[i].line])
    ELSE [p \in Paths |->
             IF p = TxtPath
             THEN FileOf(WrittenBytes([i \in DOMAIN found |-> LineAfter(found[i], outs[i])]))
             ELSE Absent]

\* Either the search of ConfirmForm over a file of n matching lines has just
\* completed, or its replacement has: each match was excluded by the user,
\* replaced, or found changed, and Results shows the statistics.
InitLists ==
    /\ StatsIdle
    /\ ReplaceIdle
    /\ directory = new_directory(RootDir)
    /\ include_hidden = FALSE
    /\ search_fields = ConfirmForm
    /\ sp_gen = 1
    /\ app_events = <<>>
    /\ exit = FALSE
    /\ rerender = TRUE
    /\ nsearch = 1
    /\ task = [g \in Gens |-> IF g = 1 THEN "done" ELSE "none"]
    /\ sentinel_sends = [g \in Gens |-> IF g = 1 THEN 1 ELSE 0]
    /\ aborted = [g \in Gens |-> FALSE]
    /\ todo = [g \in Gens |-> {}]
    /\ thr = [g \in Gens |-> [t \in Threads |-> NoThread]]
    /\ pfs = [g \in Gens |-> NoParsedFields]
    /\ chan = [g \in Gens |-> <<>>]
    /\ rx_open = [g \in Gens |-> FALSE]
    /\ \E n \in 0..MaxResults :
         LET tree == ListTree([i \in 1..n |-> <<"o">>])
             found == ScanFile(validate_fields(ConfirmForm).parsed, TxtPath, tree[TxtPath])
         IN \/ /\ current_screen = "SearchComplete"
               /\ fs = tree
               /\ search_state = SearchState(found, 0)
               /\ replace_state = NoStats
            \/ \E outs \in [1..n -> ListOutcomes] :
                 /\ current_screen = "Results"
                 /\ fs = RewrittenTree(found, outs)
                 /\ search_state = NoSearchState
                 /\ replace_state =
                      calculate_statistics(
                          [i \in 1..n |-> [found[i] EXCEPT !.included = outs[i] # NoResult,
                                                           !.replace_result = outs[i]]])
    /\ fs_start = fs
    /\ ClockIdle
    /\ send_failed = [g \in Gens |-> FALSE]
    /\ rejected = FALSE

ListKeys == {Char("j"), Char("k"), Char(" "), Char("a")}

KeyPressList == \E k \in ListKeys : HandleKeyEvents(k)

NextLists == KeyPressList

SpecLists == InitLists /\ [][NextLists]_vars

(***************************************************************************)
(* SpecForm: the operations of TextField and the focus operations of       *)
(* SearchFields, called one at a time on the form as tests/fields.rs does  *)
(***************************************************************************)
\* longest text of the Search field in SpecForm
MaxFieldText == 3

FormChars == {"a", " "}

FormTexts == UNION { [1..n -> FormChars] : n \in 0..MaxFieldText }

\* the application as App::new leaves it, with the form built by
\* SearchFields::with_values: every text field comes from TextField::new
InitForm ==
    /\ StatsIdle
    /\ fs = AppTree
    /\ ReplaceIdle
    /\ WorkersIdle
    /\ directory = new_directory(RootDir)
    /\ include_hidden = FALSE
    /\ current_screen = "SearchFields"
    /\ \E t \in FormTexts : search_fields = with_values(t, <<>>, FALSE, <<>>)
    /\ search_state = NoSearchState
    /\ sp_gen = 0
    /\ replace_state = NoStats
    /\ app_events = <<>>
    /\ exit = FALSE
    /\ rerender = TRUE
    /\ fs_start = fs
    /\ ClockIdle
    /\ send_failed = [g \in Gens |-> FALSE]
    /\ rejected = FALSE

\* a method of TextField called on the Search field
OnSearchField(f) ==
    /\ search_fields' = [search_fields EXCEPT !.search = f]
    /\ UNCHANGED <<histVars, cfgVars, statsVars, rpVars, rwVars, swVars, current_screen, search_state,
                   sp_gen, replace_state, app_events, exit, rerender>>

\* a method of SearchFields called on the form
OnForm(sf) ==
    /\ search_fields' = sf
    /\ UNCHANGED <<histVars, cfgVars, statsVars, rpVars, rwVars, swVars, current_screen, search_state,
                   sp_gen, replace_state, app_events, exit, rerender>>

EnterChar ==
    /\ Len(search_fields.search.text) < MaxFieldText
    /\ \E c \in FormChars : OnSearchField(enter_char(search_fields.search, c))

DeleteChar == OnSearchField(delete_char(search_fields.search))
DeleteCharForward == OnSearchField(delete_char_forward(search_fields.search))
DeleteWordBackward == OnSearchField(delete_word_backward(search_fields.search))
DeleteWordForward == OnSearchField(delete_word_forward(search_fields.search))
Clear == OnSearchField(clear(search_fields.search))
MoveCursorLeft == OnSearchField(move_cursor_left(search_fields.search))
MoveCursorRight == OnSearchField(move_cursor_right(search_fields.search))
MoveCursorStart == OnSearchField(move_cursor_start(search_fields.search))
MoveCursorEnd == OnSearchField(move_cursor_end(search_fields.search))
MoveCursorBackWord == OnSearchField(move_cursor_back_word(search_fields.search))
MoveCursorForwardWord == OnSearchField(move_cursor_forward_word(search_fields.search))
FocusNext == OnForm(focus_next(search_fields))
FocusPrev == OnForm(focus_prev(search_fields))

NextForm ==
    \/ EnterChar
    \/ DeleteChar
    \/ DeleteCharForward
    \/ DeleteWordBackward
    \/ DeleteWordForward
    \/ Clear
    \/ MoveCursorLeft
    \/ MoveCursorRight
    \/ MoveCursorStart
    \/ MoveCursorEnd
    \/ MoveCursorBackWord
    \/ MoveCursorForwardWord
    \/ FocusNext
    \/ FocusPrev

SpecForm == InitForm /\ [][NextForm]_vars

(***************************************************************************)
(* SpecReducer: the form, one search and its confirmation, where in        *)
(* addition handle_background_processing_event is called with an event of  *)
(* each kind on whatever screen is active                                  *)
(***************************************************************************)
\* the events handed to the handler from outside the event loop
InjectedMatch == SearchResult(TxtPath, 2, <<"b">>, <<"c">>, TRUE, NoResult)
InjectedStats == ReplaceState(1, 0, <<>>, 0)

ReducerEvents ==
    {AddSearchResult(InjectedMatch, 0), SearchCompleted(0),
     ReplacementCompleted(InjectedStats)}

\* app.handle_background_processing_event(ev), called as tests/app.rs does
Deliver(ev) ==
    /\ ~exit
    /\ ev.type = "AddSearchResult" => Len(search_state.results) < MaxResults
    /\ handle_background_processing_event(ev, chan)
    /\ UNCHANGED <<histVars, cfgVars, statsVars, rpVars, rwVars, search_fields,
                   app_events, exit, nsearch, task, aborted, todo, thr, pfs,
                   sentinel_sends>>

DeliverEvent == \E ev \in ReducerEvents : Deliver(ev)

\* Enter submits the form and confirms a completed search
ReducerKeys == {KeyEnter}

KeyPressReducer == \E k \in ReducerKeys : HandleKeyEvents(k)

NextReducer ==
    \/ DeliverEvent
    \/ KeyPressReducer
    \/ HandleAppEvent
    \/ ReceiveSearchEvent
    \/ SearchStep

SpecReducer == InitKeys /\ [][NextReducer]_vars

(***************************************************************************)
(* SpecLive: searches over files that cannot all be opened or read, with   *)
(* the workers and the event loop scheduled fairly; the user submits the   *)
(* form and never goes back, resets or exits                               *)
(***************************************************************************)
\* a byte that is not valid UTF-8: read_line consumes the line and returns
\* InvalidData
BadUtf8 == "FF"
\* a byte the device cannot deliver: read_line returns the error and
\* consumes nothing
IoFault == "EIO"

\* a file with a line that is not UTF-8 between two matching lines
LiveTree ==
    [p \in Paths |->
        CASE p = TxtPath -> FileOf(<<"o", NL, BadUtf8, NL, "o">>)
          [] p = TmpPath -> FileOf(<<"o">>)
          [] p = PngPath -> Absent]

\* a file whose second line the device cannot deliver
FaultTree ==
    [p \in Paths |->
        CASE p = TxtPath -> FileOf(<<"o", NL, IoFault>>)
          [] p = TmpPath -> FileOf(<<"o">>)
          [] p = PngPath -> Absent]

InitLive ==
    /\ StatsIdle
    /\ fs \in {LiveTree, FaultTree}
    /\ ReplaceIdle
    /\ AppNew(FALSE)
    /\ nsearch = MaxSearches - 2
    /\ task = [g \in Gens |-> IF g <= MaxSearches - 2 THEN "done" ELSE "none"]
    /\ sentinel_sends = [g \in Gens |-> IF g <= MaxSearches - 2 THEN 1 ELSE 0]
    /\ aborted = [g \in Gens |-> FALSE]
    /\ todo = [g \in Gens |-> {}]
    /\ thr = [g \in Gens |-> [t \in Threads |-> NoThread]]
    /\ pfs = [g \in Gens |-> NoParsedFields]
    /\ chan = [g \in Gens |-> <<>>]
    /\ rx_open = [g \in Gens |-> FALSE]
    /\ fs_start = fs
    /\ ClockIdle
    /\ send_failed = [g \in Gens |-> FALSE]
    /\ rejected = FALSE

\* the line a scanner thread is about to read
LineAt(g, t) == Lines(fs[thr[g][t].file].data)[thr[g][t].line]

Unreadable(line) == Contains(line, BadUtf8) \/ Contains(line, IoFault)

\* handle_path: File::open fails; the Err arm logs and returns
OpenFails(g, t) ==
    /\ ~exit
    /\ task[g] = "walking"
    /\ thr[g][t] = NoThread
    /\ \E p \in todo[g] :
         /\ ~ignore_file(p)
         /\ todo' = [todo EXCEPT ![g] = @ \ {p}]
    /\ UNCHANGED <<histVars, cfgVars, statsVars, rpVars, rwVars, uiVars, nsearch, task,
                   aborted, thr, pfs, chan, rx_open, sentinel_sends>>

\* handle_path: reader.lines() yields Err; the Err arm logs and the loop
\* asks for the next item, which is the next line after invalid UTF-8 and
\* the same read again after a device error
ReadFails(g, t) ==
    /\ ~exit
    /\ thr[g][t] # NoThread
    /\ Unreadable(LineAt(g, t))
    /\ thr' = [thr EXCEPT ![g][t] =
                  IF Contains(LineAt(g, t), IoFault) THEN @
                  ELSE IF @.line >= Len(Lines(fs[@.file].data)) THEN NoThread
                  ELSE [@ EXCEPT !.line = @ + 1]]
    /\ UNCHANGED <<histVars, cfgVars, statsVars, rpVars, rwVars, uiVars, nsearch, task,
                   aborted, todo, pfs, chan, rx_open, sentinel_sends>>

\* handle_path: reader.lines() yields Ok(line)
ScanReadable(g, t) ==
    /\ thr[g][t] # NoThread
    /\ ~Unreadable(LineAt(g, t))
    /\ ScanLine(g, t)

\* Enter submits the form; on the other screens of SpecLive it has no effect
LiveKeys == {KeyEnter}

KeyPressLive ==
    /\ current_screen = "SearchFields"
    /\ \E k \in LiveKeys : HandleKeyEvents(k)

LiveSearchStep ==
    \/ \E g \in Gens : WorkerStart(g)
    \/ \E g \in Gens, t \in Threads : TakeEntry(g, t)
    \/ \E g \in Gens, t \in Threads : OpenFails(g, t)
    \/ \E g \in Gens, t \in Threads : ScanReadable(g, t)
    \/ \E g \in Gens, t \in Threads : ReadFails(g, t)
    \/ \E g \in Gens : WorkerFinish(g)

NextLive ==
    \/ KeyPressLive
    \/ HandleAppEvent
    \/ ReceiveSearchEvent
    \/ LiveSearchStep

\* the runtime polls every spawned task and runs every scanner thread, and
\* the event loop takes every event that waits in one of its channels
FairLive ==
    /\ WF_vars(LiveSearchStep)
    /\ WF_vars(HandleAppEvent)
    /\ WF_vars(ReceiveSearchEvent)

SpecLive == InitLive /\ [][NextLive]_vars /\ FairLive

(***************************************************************************)
(* SpecClock: one search with a clock, to follow last_render and the       *)
(* redraw hints of the search phase                                        *)
(***************************************************************************)
\* the clock is followed for MaxClock ticks of 50ms
MaxClock == 4
\* Duration::from_millis(100), in ticks
RenderInterval == 2

Tick ==
    /\ ~exit
    /\ now < MaxClock
    /\ now' = now + 1
    /\ UNCHANGED <<fs_start, send_failed, rejected, last_render, last_redraw, cfgVars, statsVars, rpVars,
                   rwVars, appVars>>

\* handle_app_event; SearchInProgressState::new reads the clock
HandleAppEventClock ==
    /\ handle_app_event
    /\ last_render' = IF current_screen' = "SearchProgressing" THEN now ELSE 0
    /\ last_redraw' = now
    /\ UNCHANGED <<fs_start, send_failed, rejected, now>>

\* background_processing_recv and the handler; the AddSearchResult arm
\* compares last_render.elapsed() with the interval and stores the clock
\* when it hints a redraw
ReceiveSearchEventClock ==
    /\ background_processing_recv
    /\ Head(chan[sp_gen]).type = "AddSearchResult"
           => rerender' = (now - last_render >= RenderInterval)
    /\ last_render' = IF current_screen' # "SearchProgressing" THEN 0
                      ELSE IF rerender' THEN now ELSE last_render
    /\ last_redraw' = IF rerender' THEN now ELSE last_redraw
    /\ UNCHANGED <<fs_start, send_failed, rejected, now>>

\* handle_key_events on a key event of kind Release: nothing but the hint
KeyRelease ==
    /\ ~exit
    /\ rerender' = TRUE
    /\ last_redraw' = now
    /\ UNCHANGED <<fs_start, send_failed, rejected, now, last_render, cfgVars, statsVars,
                   rpVars, rwVars,
                   current_screen, search_fields, search_state, sp_gen,
                   replace_state, app_events, exit, swVars>>

\* Enter on the form submits it
KeyPressClock ==
    /\ current_screen = "SearchFields"
    /\ HandleKeyEvents(KeyEnter)

NextClock ==
    \/ Tick
    \/ KeyPressClock
    \/ KeyRelease
    \/ HandleAppEventClock
    \/ ReceiveSearchEventClock
    \/ SearchStep

SpecClock == InitSearch /\ [][NextClock]_vars

(***************************************************************************)
(* SpecCancel: the application of Spec with its workers scheduled fairly   *)
(***************************************************************************)
\* the runtime polls every spawned task and the walker runs every thread
FairCancel == WF_vars(SearchStep)

SpecCancel == Init /\ [][Next]_vars /\ FairCancel

(***************************************************************************)
(* SpecValidate: the form is filled in field by field and submitted        *)
(***************************************************************************)
ValidateKeys ==
    {KeyEnter, KeyTab, KeyBackspace, KeyEsc, Char("["), Char(" "), Ctrl("c")}

KeyPressValidate ==
    /\ current_screen = "SearchFields"
    /\ \E k \in ValidateKeys : HandleKeyEvents(k)

\* handle_app_event, remembering a validation that failed
HandleAppEventValidate ==
    /\ handle_app_event
    /\ rejected' = (rejected \/ (Head(app_events) = "PerformSearch"
                                    /\ validate_fields(search_fields).parsed = NoParsedFields))
    /\ UNCHANGED <<fs_start, clockVars, send_failed>>

NextValidate ==
    \/ KeyPressValidate
    \/ HandleAppEventValidate

\* App::new, with and without --advanced-regex
InitValidate ==
    /\ StatsIdle
    /\ fs = SearchTree
    /\ ReplaceIdle
    /\ \E advanced_regex \in BOOLEAN : AppNew(advanced_regex)
    /\ nsearch = MaxSearches - 1
    /\ task = [g \in Gens |-> IF g < MaxSearches THEN "done" ELSE "none"]
    /\ sentinel_sends = [g \in Gens |-> IF g < MaxSearches THEN 1 ELSE 0]
    /\ aborted = [g \in Gens |-> FALSE]
    /\ todo = [g \in Gens |-> {}]
    /\ thr = [g \in Gens |-> [t \in Threads |-> NoThread]]
    /\ pfs = [g \in Gens |-> NoParsedFields]
    /\ chan = [g \in Gens |-> <<>>]
    /\ rx_open = [g \in Gens |-> FALSE]
    /\ fs_start = fs
    /\ ClockIdle
    /\ send_failed = [g \in Gens |-> FALSE]
    /\ rejected = FALSE

SpecValidate == InitValidate /\ [][NextValidate]_vars

(***************************************************************************)
(* Properties of calculate_statistics (SpecStats)                          *)
(***************************************************************************)
StatsComputed == st_out # NoStats

\* C4: for every list of matches, num_successes + num_ignored + errors.len()
\* equals the number of matches.
C4_StatsConservation ==
    StatsComputed =>
        st_out.num_successes + st_out.num_ignored + Len(st_out.errors)
            = Len(st_results)

C4_Witness ==
    /\ StatsComputed
    /\ st_out.num_successes > 0
    /\ st_out.num_ignored > 0
    /\ \E k \in DOMAIN st_out.errors : st_out.errors[k].replace_result = Error(MsgNotFound)

IgnoredIdx == { i \in DOMAIN st_results : ~st_results[i].included }
SuccessIdx ==
    { i \in DOMAIN st_results :
        st_results[i].included /\ st_results[i].replace_result = Success }
ErrorIdx == DOMAIN st_results \ (IgnoredIdx \cup SuccessIdx)
\* the input position of the k-th error
NthError(k) ==
    CHOOSE i \in ErrorIdx : Cardinality({ j \in ErrorIdx : j <= i }) = k

\* C5: not included -> ignored whatever the outcome; included and Success ->
\* success; included without outcome -> error "Failed to find search result
\* in file"; included with Error(e) -> error, unchanged; the errors keep the
\* input order and the cursor starts at 0.
C5_StatsClassification ==
    StatsComputed =>
        /\ st_out.num_ignored = Cardinality(IgnoredIdx)
        /\ st_out.num_successes = Cardinality(SuccessIdx)
        /\ Len(st_out.errors) = Cardinality(ErrorIdx)
        /\ \A k \in DOMAIN st_out.errors :
             LET res == st_results[NthError(k)] IN
             st_out.errors[k] =
                 IF res.replace_result = NoResult
                 THEN [res EXCEPT !.replace_result = Error(MsgNotFound)]
                 ELSE res
        /\ st_out.replacement_errors_pos = 0

C5_Witness ==
    /\ StatsComputed
    /\ \E i \in IgnoredIdx : st_results[i].replace_result = Success
    /\ Len(st_out.errors) = 2
    /\ st_out.errors[1].replace_result = Error("error")
    /\ st_out.errors[2].replace_result = Error(MsgNotFound)

(***************************************************************************)
(* Properties of replace_in_file (SpecRewrite)                             *)
(***************************************************************************)
EndsWithNL(c) == c # <<>> /\ c[Len(c)] = NL

\* is line n of path p, reading `line`, the line an included match recorded
MatchFor(results, p, n, line) ==
    { i \in DOMAIN results :
        /\ results[i].included
        /\ results[i].path = p
        /\ results[i].line_number = n
        /\ results[i].line = line }

\* the line-by-line transformation of a content
TransformedLines(c, results, p) ==
    [n \in 1..Len(Lines(c)) |->
        IF MatchFor(results, p, n, Lines(c)[n]) # {}
        THEN results[CHOOSE i \in MatchFor(results, p, n, Lines(c)[n]) : TRUE].replacement
        ELSE Lines(c)[n]]

RECURSIVE Concat(_)
Concat(ls) == IF ls = <<>> THEN <<>> ELSE Head(ls) \o Concat(Tail(ls))

\* the transformed lines with the terminators of c put back
Transformed(c, results, p) ==
    LET ls == TransformedLines(c, results, p)
    IN Concat([n \in 1..Len(ls) |->
                  IF n < Len(ls) \/ EndsWithNL(c) THEN Append(ls[n], NL) ELSE ls[n]])

\* replace_in_file returned Ok for rw_path and nothing ran since
RewriteReturnedOk == rp_pc \in {"group", "done"} /\ rw_path # NoPath /\ rp_ret[rw_path] = "ok"
RewriteReturnedErr == rp_pc \in {"group", "done"} /\ rw_path # NoPath /\ rp_ret[rw_path] = "err"
RewriteStarted == rw_path # NoPath

\* C1: after a rewrite that returns success (here: one whose temp file is
\* not the source file itself) the content at the source path is the
\* line-by-line transformation of the content read, with the number of
\* lines and the line terminators preserved.
C1_RewriteIsLineByLine ==
    (RewriteReturnedOk /\ TempPath(rw_path) # rw_path) =>
        /\ fs[rw_path].exists
        /\ fs[rw_path].data = Transformed(rw_pre.data, rp_results, rw_path)

\* C2: from the start of a rewrite on, whether it runs, fails or is aborted,
\* the source path holds the complete old content or the complete new one
\* (with or without the terminators put back), and the old one after a
\* failure.
C2_SourceOldOrNew ==
    RewriteStarted =>
        /\ \/ fs[rw_path] = rw_pre
           \/ fs[rw_path] = FileOf(Transformed(rw_pre.data, rp_results, rw_path))
           \/ fs[rw_path] = FileOf(Concat(TransformedLines(rw_pre.data, rp_results, rw_path)))
        /\ RewriteReturnedErr => fs[rw_path] = rw_pre

InRewriteLoop == rp_pc \in {"read", "write", "flush", "rename"}

\* what write_all got, or is about to get, for line n
OutLine(n) == IF n <= Len(rw_written) THEN rw_written[n] ELSE rw_line

\* C3: while replace_in_file runs, every included match whose line has been
\* read and differs from original_line has outcome Error("File changed
\* since last search") and the line read is what is written; every included
\* match whose line equals original_line has outcome Success.
C3_ChangedLineIsError ==
    InRewriteLoop =>
        \A i \in DOMAIN rp_results :
            LET m == rp_results[i] IN
            (m.included /\ m.path = rw_path /\ m.line_number <= Len(rw_read)) =>
                IF rw_read[m.line_number] = m.line
                THEN /\ m.replace_result = Success
                     /\ OutLine(m.line_number) = m.replacement
                ELSE /\ m.replace_result = Error(MsgChanged)
                     /\ OutLine(m.line_number) = rw_read[m.line_number]

C3_Witness ==
    /\ rp_pc = "flush"
    /\ \E i, j \in DOMAIN rp_results :
         /\ rp_results[i].included /\ rp_results[i].path = rw_path
         /\ rp_results[j].included /\ rp_results[j].path = rw_path
         /\ rp_results[i].line_number <= Len(rw_read)
         /\ rp_results[j].line_number <= Len(rw_read)
         /\ rw_read[rp_results[i].line_number] # rp_results[i].line
         /\ rp_results[i].replace_result = Error(MsgChanged)
         /\ rw_written[rp_results[i].line_number] = rw_read[rp_results[i].line_number]
         /\ rp_results[j].replace_result = Success

(***************************************************************************)
(* Properties of the search pipeline (Spec, SpecSearch)                    *)
(***************************************************************************)
Live(g) == task[g] \in {"spawned", "walking"}

Current(g) == OwnsSearch /\ sp_gen = g

\* C6: in every step that makes the result list longer, the screen is and
\* stays the in-progress screen of one search, and the match appended was
\* sent by a worker of that search: a match of a search the application
\* has left (Ctrl-O, Ctrl-R, exit) is appended to no state.
C6_NoAppendAfterLeaving ==
    [][Len(search_state'.results) > Len(search_state.results) =>
          /\ OwnsSearch
          /\ current_screen' = "SearchProgressing"
          /\ sp_gen' = sp_gen
          /\ chan[sp_gen] # <<>>
          /\ Head(chan[sp_gen]).from = sp_gen
          /\ search_state'.results
               = Append(search_state.results, Head(chan[sp_gen]).result)]_vars

\* a search that was left still has a scanner thread inside a file while the
\* search that followed it has results
C6_Witness ==
    /\ OwnsSearch
    /\ search_state.results # <<>>
    /\ \E g \in Gens, t \in Threads :
         /\ g # sp_gen
         /\ ~rx_open[g]
         /\ thr[g][t] # NoThread

\* C7: every search task that is neither the one of the screen nor ended
\* has been aborted, so at most one un-aborted unfinished search worker
\* exists.
C7_EveryLeaveAborts ==
    \A g \in Gens : (Live(g) /\ ~aborted[g]) => Current(g)

SentinelIn(q) == \E i \in DOMAIN q : q[i].type = "SearchCompleted"

\* C8: SearchCompleted is sent at most once per search and exactly once by
\* a task that has ended; when it has been sent every entry is handed out and
\* every scanner thread is back; it is the last event of its channel, so
\* every AddSearchResult of the search is received before it and none after.
C8_SentinelLast ==
    \A g \in Gens :
        /\ sentinel_sends[g] <= 1
        /\ task[g] = "done" <=> sentinel_sends[g] = 1
        /\ sentinel_sends[g] = 1 =>
             /\ todo[g] = {}
             /\ \A t \in Threads : thr[g][t] = NoThread
        /\ \A i \in DOMAIN chan[g] :
             /\ chan[g][i].from = g
             /\ chan[g][i].type = "SearchCompleted" => i = Len(chan[g])

\* the sentinel waits in the channel behind matches of two files
C8_Witness ==
    \E g \in Gens :
        /\ SentinelIn(chan[g])
        /\ \E i, j \in DOMAIN chan[g] :
             /\ chan[g][i].type = "AddSearchResult"
             /\ chan[g][j].type = "AddSearchResult"
             /\ chan[g][i].result.path # chan[g][j].result.path

\* the lines a search with the parsed fields pf has to report: the lines
\* that match, are not binary, and lie in a file that exists, has no ignored
\* extension and passes the path filter
MatchingLines(pf) ==
    UNION { { <<p, n>> : n \in { n \in 1..Len(Lines(fs[p].data)) :
                                  /\ ~Contains(Lines(fs[p].data)[n], NUL)
                                  /\ IsMatch(pf.search_pattern.text,
                                             Lines(fs[p].data)[n]) } }
            : p \in { p \in Paths :
                        /\ fs[p].exists
                        /\ p.ext \notin BINARY_EXTENSIONS
                        /\ pf.path_pattern.kind = "None"
                             \/ IsMatch(pf.path_pattern.text,
                                        relative_path_from(p)) } }

ResultsAt(p, n) ==
    { i \in DOMAIN search_state.results :
        search_state.results[i].path = p /\ search_state.results[i].line_number = n }

\* C9: on SearchComplete the results hold exactly one match for every
\* matching line, carrying the line and its replacement, and nothing else.
C9_CompleteResults ==
    current_screen = "SearchComplete" =>
        LET pf == validate_fields(search_fields).parsed
            lines(p) == Lines(fs[p].data)
        IN /\ \A m \in MatchingLines(pf) : Cardinality(ResultsAt(m[1], m[2])) = 1
           /\ \A i \in DOMAIN search_state.results :
                LET r == search_state.results[i] IN
                /\ <<r.path, r.line_number>> \in MatchingLines(pf)
                /\ r.line = lines(r.path)[r.line_number]
                /\ r.replacement = ReplaceAll(r.line, pf.search_pattern.text, pf.replace_string)
                /\ r.included
                /\ r.replace_result = NoResult

\* a completed search over both scanned files, with matches of one file
\* received around a match of the other
C9_Witness ==
    /\ current_screen = "SearchComplete"
    /\ Len(search_state.results) >= 3
    /\ \E i, j, k \in DOMAIN search_state.results :
         /\ i < j /\ j < k
         /\ search_state.results[i].path = search_state.results[k].path
         /\ search_state.results[j].path # search_state.results[i].path

PerformSearchStep ==
    /\ ~exit
    /\ app_events # <<>>
    /\ Head(app_events) = "PerformSearch"
    /\ app_events' = Tail(app_events)

\* C10: a step that handles PerformSearch while the search text does not
\* compile ends on the form, with the Search field's error and
\* show_error_popup set; it starts no search task and does not reach
\* SearchComplete.
C10_InvalidRegexStaysOnForm ==
    [][(PerformSearchStep /\ search_type(search_fields) = CompileError) =>
          /\ current_screen' = "SearchFields"
          /\ search_fields'.search.error = RegexErrorShort
          /\ search_fields'.show_error_popup
          /\ nsearch' = nsearch
          /\ task' = task
          /\ \A g \in Gens : ~rx_open'[g]]_vars

\* the form after an invalid submission from the form; nothing was started
C10_Witness ==
    /\ current_screen = "SearchFields"
    /\ search_fields.search.text = <<"[">>
    /\ search_fields.search.error = RegexErrorShort
    /\ search_fields.show_error_popup
    /\ nsearch = 0

(***************************************************************************)
(* Properties of the result list and its cursor (SpecBrowse)               *)
(***************************************************************************)
SentinelNext ==
    /\ OwnsSearch
    /\ chan[sp_gen] # <<>>
    /\ Head(chan[sp_gen]).type = "SearchCompleted"

\* C11: the screen becomes SearchComplete only by the receipt of
\* SearchCompleted on the in-progress screen, and that receipt always makes
\* it SearchComplete; the step leaves the SearchState as it was: the same
\* matches in the same order, with the included flags the user has set
\* during the search and the same selected index.
C11_CompletionKeepsState ==
    [][/\ (current_screen' = "SearchComplete" /\ current_screen # "SearchComplete")
            => (SentinelNext /\ search_state' = search_state)
       /\ (SentinelNext /\ ReceiveSearchEvent)
            => (current_screen' = "SearchComplete" /\ search_state' = search_state)]_vars

\* SearchCompleted is the next event to receive while a result has been
\* excluded and the cursor has been moved off the first row
C11_Witness ==
    /\ SentinelNext
    /\ search_state.selected > 0
    /\ \E i \in DOMAIN search_state.results : ~search_state.results[i].included

\* C17: on SearchProgressing and on SearchComplete, whatever matches have
\* arrived and whatever selection keys were pressed in between, selected is
\* 0 when there is no result and less than the number of results otherwise.
C17_SelectedInRange ==
    current_screen \in {"SearchProgressing", "SearchComplete"} =>
        IF search_state.results = <<>>
        THEN search_state.selected = 0
        ELSE search_state.selected < Len(search_state.results)

\* the cursor was moved to the last of several rows while further matches
\* wait in the channel
C17_Witness ==
    /\ OwnsSearch
    /\ Len(search_state.results) >= 2
    /\ search_state.selected = Len(search_state.results) - 1
    /\ chan[sp_gen] # <<>>
    /\ Head(chan[sp_gen]).type = "AddSearchResult"

(***************************************************************************)
(* Properties of the key handlers (Spec, SpecKeys)                         *)
(***************************************************************************)
\* a replacement task begins: none was running before the step
ReplacementSpawned == rp_pc' = "group" /\ rp_pc \in {"idle", "done", "aborted"}

\* C12: the replacement screen is entered, and a replacement task spawned,
\* only by Enter on SearchComplete, and the task is given the results of
\* that screen; Enter on the in-progress screen spawns nothing and leaves
\* the screen, the matches, the selection, the receiver and the search
\* task as they are; Enter on the form, the replacement screen or the
\* results screen spawns nothing either.
C12_ConfirmOnlyWhenComplete ==
    [][/\ (ReplacementSpawned
             \/ (current_screen' = "PerformingReplacement"
                   /\ current_screen # "PerformingReplacement"))
            => /\ current_screen = "SearchComplete"
               /\ HandleKeyEvents(KeyEnter)
               /\ current_screen' = "PerformingReplacement"
               /\ ReplacementSpawned
               /\ rp_results' = search_state.results
       /\ (OwnsSearch /\ HandleKeyEvents(KeyEnter))
            => UNCHANGED <<current_screen, search_state, sp_gen, chan, rx_open, task,
                           aborted, rpVars, rwVars>>
       /\ (current_screen # "SearchComplete" /\ HandleKeyEvents(KeyEnter))
            => UNCHANGED <<current_screen, rpVars, rwVars>>]_vars

\* Enter was pressed on SearchComplete: the replacement task holds matches
C12_Witness ==
    /\ current_screen = "PerformingReplacement"
    /\ rp_pc = "group"
    /\ rp_results # <<>>
    /\ search_state = NoSearchState

(***************************************************************************)
(* Properties of a confirmed replacement (SpecConfirm)                     *)
(***************************************************************************)
\* C13: once the replacement screen is entered the results screen is
\* eventually entered, whatever rewrites fail, when the replacement task
\* and the event loop are scheduled fairly and the user neither resets nor
\* quits.
C13_ReplacementReachesResults ==
    (current_screen = "PerformingReplacement") ~> (current_screen = "Results")

EmptyField == [text |-> <<>>, cursor_idx |-> 0, error |-> NoError]

FreshForm(sf) ==
    /\ sf.search = EmptyField
    /\ sf.replace = EmptyField
    /\ sf.path_pattern = EmptyField
    /\ ~sf.fixed_strings
    /\ sf.highlighted = 0
    /\ ~sf.show_error_popup

\* the step of Ctrl-R ends on the fresh form, with the directory, the
\* hidden-file policy and the advanced-regex flag it began with, exit = false
ResetFrame ==
    /\ current_screen' = "SearchFields"
    /\ FreshForm(search_fields')
    /\ search_fields'.advanced_regex = search_fields.advanced_regex
    /\ directory' = directory
    /\ include_hidden' = include_hidden
    /\ search_state' = NoSearchState
    /\ replace_state' = NoStats
    /\ exit' = FALSE

RewriteRunning == {"group", "open", "create", "read", "write", "flush", "rename"}

\* C14: Ctrl-R on any screen, the popup open or not, yields the fresh form,
\* leaves the directory, the hidden-file policy and the advanced-regex flag
\* unchanged and returns exit = false; after it no search task and no
\* replacement task is left running without having been aborted.
C14_ResetYieldsFreshForm ==
    [][HandleKeyEvents(Ctrl("r")) =>
          /\ ResetFrame
          /\ \A g \in Gens : task'[g] \in {"spawned", "walking"} => aborted'[g]
          /\ rp_pc' \notin RewriteRunning]_vars

\* what reset does do, in Spec and in SpecKeys: it yields the fresh form and
\* aborts the task whose handle the screen holds
ResetAbortsScreenWorker ==
    [][HandleKeyEvents(Ctrl("r")) =>
          /\ ResetFrame
          /\ (OwnsSearch /\ task[sp_gen] \in {"spawned", "walking"})
               => (aborted'[sp_gen] \/ task'[sp_gen] = "cancelled")
          /\ (current_screen = "PerformingReplacement" /\ rp_pc \in RewriteRunning)
               => rp_pc' = "aborted"]_vars

OnSearchScreen == current_screen \in {"SearchProgressing", "SearchComplete"}

\* C15: Ctrl-O on SearchProgressing or SearchComplete ends on the form with
\* exit = false; the form fields, which no step changed while the search
\* screens were shown, are left as they are; abort() is called on a search
\* task that has not ended, its receiver is dropped, and the results are
\* gone.
C15_BackKeepsForm ==
    [][/\ (OnSearchScreen /\ HandleKeyEvents(Ctrl("o")))
            => /\ current_screen' = "SearchFields"
               /\ exit' = FALSE
               /\ search_fields' = search_fields
               /\ search_state' = NoSearchState
               /\ \A g \in Gens : ~rx_open'[g]
               /\ (OwnsSearch /\ task[sp_gen] \in {"spawned", "walking"})
                    => (aborted'[sp_gen] \/ task'[sp_gen] = "cancelled")
       /\ (OnSearchScreen /\ current_screen' \in {"SearchProgressing", "SearchComplete"})
            => search_fields' = search_fields]_vars

\* Ctrl-O was pressed while the walker of a search for a typed text was
\* running: the form is shown with the text, the task has been aborted
C15_Witness ==
    /\ current_screen = "SearchFields"
    /\ search_fields.search.text # <<>>
    /\ \E i \in DOMAIN app_events : app_events[i] = "Rerender"
    /\ \E g \in Gens : aborted[g] /\ task[g] = "walking" /\ ~rx_open[g]

\* the popup is only ever open over the form
PopupOnForm == search_fields.show_error_popup => current_screen = "SearchFields"

\* C16: on every screen a press of Esc or Ctrl-C returns exit = true when
\* the error popup is closed; when it is open the press closes it, returns
\* exit = false and changes nothing else, so that the next Esc or Ctrl-C
\* exits.
C16_EscExitsUnlessPopup ==
    [][\A k \in {KeyEsc, Ctrl("c")} :
          HandleKeyEvents(k) =>
             IF search_fields.show_error_popup
             THEN /\ search_fields' = [search_fields EXCEPT !.show_error_popup = FALSE]
                  /\ exit' = FALSE
                  /\ UNCHANGED <<current_screen, search_state, sp_gen, replace_state,
                                 app_events, swVars, rpVars, rwVars>>
             ELSE exit' = TRUE]_vars

\* Esc or Ctrl-C was pressed while the walker of a search was running
C16_Witness ==
    /\ exit
    /\ current_screen = "SearchFields"
    /\ \E g \in Gens : aborted[g] /\ task[g] = "walking"

(***************************************************************************)
(* Properties of the list operations (SpecLists)                           *)
(***************************************************************************)
RECURSIVE DownTimes(_, _)
DownTimes(st, k) == IF k = 0 THEN st ELSE DownTimes(move_selected_down(st), k - 1)

RECURSIVE UpTimes(_, _)
UpTimes(st, k) == IF k = 0 THEN st ELSE UpTimes(move_selected_up(st), k - 1)

\* C18: on a SearchState with n > 0 results and selected < n,
\* move_selected_down on the last row gives the first, move_selected_up on
\* the first row gives the last, and n applications of either give the
\* state they started from.
C18_SelectionWraps ==
    (current_screen = "SearchComplete" /\ search_state.results # <<>>) =>
        LET st == search_state
            n == Len(st.results)
        IN /\ st.selected < n
           /\ st.selected = n - 1 => move_selected_down(st).selected = 0
           /\ st.selected < n - 1 => move_selected_down(st).selected = st.selected + 1
           /\ st.selected = 0 => move_selected_up(st).selected = n - 1
           /\ st.selected > 0 => move_selected_up(st).selected = st.selected - 1
           /\ DownTimes(st, n) = st
           /\ UpTimes(st, n) = st

\* the cursor was moved to the last of at least three rows
C18_Witness ==
    /\ current_screen = "SearchComplete"
    /\ Len(search_state.results) >= 3
    /\ search_state.selected = Len(search_state.results) - 1

\* C19: toggle_all_selected gives every result the flag "not all results
\* were included": all included becomes all excluded, anything else becomes
\* all included; an empty list stays as it is; selected and every other
\* field of every result are unchanged.
C19_ToggleAllUniform ==
    current_screen = "SearchComplete" =>
        LET st == search_state
            t == toggle_all_selected(st)
            all_included == \A i \in DOMAIN st.results : st.results[i].included
        IN /\ t.selected = st.selected
           /\ Len(t.results) = Len(st.results)
           /\ \A i \in DOMAIN st.results :
                t.results[i] = [st.results[i] EXCEPT !.included = ~all_included]
           /\ st.results = <<>> => t = st

\* several results, excluded one and all: `a` was pressed
C19_Witness ==
    /\ current_screen = "SearchComplete"
    /\ Len(search_state.results) >= 2
    /\ \A i \in DOMAIN search_state.results : ~search_state.results[i].included

ErrorsPosInRange(rs) ==
    IF rs.errors = <<>> THEN rs.replacement_errors_pos = 0
    ELSE rs.replacement_errors_pos < Len(rs.errors)

SameTallies(a, b) ==
    /\ a.num_successes = b.num_successes
    /\ a.num_ignored = b.num_ignored
    /\ a.errors = b.errors

\* C20: on Results, after any scroll keys, replacement_errors_pos is 0 when
\* there is no error and less than the number of errors otherwise; a
\* scroll down on the last error gives 0 and a scroll up on 0 gives the
\* last error; a scroll changes neither the tallies nor the error list.
C20_ErrorsPosWraps ==
    current_screen = "Results" =>
        LET rs == replace_state
            n == Len(rs.errors)
            up == scroll_replacement_errors_up(rs)
            down == scroll_replacement_errors_down(rs)
        IN /\ ErrorsPosInRange(rs)
           /\ ErrorsPosInRange(up)
           /\ ErrorsPosInRange(down)
           /\ (n > 0 /\ rs.replacement_errors_pos = n - 1) => down.replacement_errors_pos = 0
           /\ (n > 0 /\ rs.replacement_errors_pos = 0) => up.replacement_errors_pos = n - 1
           /\ SameTallies(up, rs)
           /\ SameTallies(down, rs)

\* the error list was scrolled to the last of several errors, next to
\* replaced and ignored matches
C20_Witness ==
    /\ current_screen = "Results"
    /\ Len(replace_state.errors) >= 2
    /\ replace_state.replacement_errors_pos = Len(replace_state.errors) - 1
    /\ replace_state.num_successes + replace_state.num_ignored > 0

(***************************************************************************)
(* Properties of the form (SpecForm)                                       *)
(***************************************************************************)
RECURSIVE FocusNextTimes(_, _)
RECURSIVE FocusPrevTimes(_, _)
FocusNextTimes(sf, k) == IF k = 0 THEN sf ELSE FocusNextTimes(focus_next(sf), k - 1)
FocusPrevTimes(sf, k) == IF k = 0 THEN sf ELSE FocusPrevTimes(focus_prev(sf), k - 1)

\* C21: after any sequence of focus_next and focus_prev the highlighted
\* index is one of 0, 1, 2, 3; focus_next advances it by one and wraps from
\* 3 to 0, focus_prev goes back by one and wraps from 0 to 3, each undoes
\* the other, and four of either return to the starting field.
C21_FocusWraps ==
    LET sf == search_fields
        h == search_fields.highlighted
    IN /\ h \in 0..3
       /\ focus_next(sf) = [sf EXCEPT !.highlighted = IF h = 3 THEN 0 ELSE h + 1]
       /\ focus_prev(sf) = [sf EXCEPT !.highlighted = IF h = 0 THEN 3 ELSE h - 1]
       /\ focus_prev(focus_next(sf)) = sf
       /\ focus_next(focus_prev(sf)) = sf
       /\ FocusNextTimes(sf, 4) = sf
       /\ FocusPrevTimes(sf, 4) = sf

C21_Witness ==
    /\ search_fields.highlighted = 3
    /\ focus_next(search_fields).highlighted = 0
    /\ search_fields.search.text # <<>>

CursorInText(f) == 0 <= f.cursor_idx /\ f.cursor_idx <= Len(f.text)

\* C22: after any sequence of the operations of a text field built by
\* TextField::new, the cursor index is at least 0 and at most the number of
\* characters of the text.
C22_CursorInRange ==
    /\ CursorInText(search_fields.search)
    /\ CursorInText(search_fields.replace)
    /\ CursorInText(search_fields.path_pattern)

C22_Witness ==
    /\ Len(search_fields.search.text) >= 2
    /\ search_fields.search.cursor_idx = Len(search_fields.search.text)
    /\ Contains(search_fields.search.text, " ")
    /\ move_cursor_right(search_fields.search) = search_fields.search

(***************************************************************************)
(* Properties of the scanner on binary files (SpecSearch)                  *)
(***************************************************************************)
FirstLineBinary(p) ==
    /\ fs[p].exists
    /\ Lines(fs[p].data) # <<>>
    /\ IsBinary(Lines(fs[p].data)[1])

\* the matches received so far and the matches still in the channel
MatchesOf(g) ==
    search_state.results
        \o SelectSeq([i \in DOMAIN chan[g] |-> chan[g][i].result],
                     LAMBDA r : r # NoMatch)

\* C23: a file whose first line sniffs as binary, or whose extension is in
\* the blocklist, contributes no match to the search results, whatever its
\* later lines hold.
C23_BinaryFilesYieldNothing ==
    \A g \in Gens : \A i \in DOMAIN MatchesOf(g) :
        /\ ~ignore_file(MatchesOf(g)[i].path)
        /\ ~FirstLineBinary(MatchesOf(g)[i].path)

\* the part of C23 that holds: no match of a file with a blocklisted
\* extension, and no match on a line that sniffs as binary
IgnoredFilesYieldNothing ==
    \A g \in Gens : \A i \in DOMAIN MatchesOf(g) :
        /\ ~ignore_file(MatchesOf(g)[i].path)
        /\ ~IsBinary(MatchesOf(g)[i].line)

(***************************************************************************)
(* Properties of the files a replacement run touches (SpecRewrite)         *)
(***************************************************************************)
ExistingPaths(f) == { p \in Paths : f[p].exists }

\* the task has sent ReplacementCompleted and replace_in_file returned Ok
\* for every path it was called with
AllRewritesOk ==
    /\ rp_pc = "done"
    /\ \A p \in Paths : rp_ret[p] # "err"
    /\ \E p \in Paths : rp_ret[p] = "ok"

\* C24: after a replacement run in which every rewrite succeeds, the paths
\* that exist under the root are exactly those that existed before the run.
C24_PathSetPreserved ==
    AllRewritesOk => ExistingPaths(fs) = ExistingPaths(fs_start)

\* Path::file_name
FileName(p) == IF p.ext = "" THEN p.stem ELSE p.stem \o "." \o p.ext

\* C25: the temp file of a rewrite is named by the target's full name with
\* ".tmp" appended; it is neither the target nor a sibling that shares only
\* the target's stem.
C25_TempNameAppendsSuffix ==
    RewriteStarted =>
        /\ FileName(TempPath(rw_path)) = FileName(rw_path) \o ".tmp"
        /\ TempPath(rw_path) # rw_path
        /\ \A q \in Paths :
             (q.stem = rw_path.stem /\ q.ext # rw_path.ext) => TempPath(rw_path) # q

\* C26: a replacement run changes neither the content nor the existence of
\* a file that has no included match.
C26_OnlyIncludedFilesChange ==
    \A p \in Paths :
        (fs_start[p].exists /\ p \notin PathGroups(rp_results)) => fs[p] = fs_start[p]

\* the part of C26 that holds: replace_in_file is called only with paths
\* that own an included match
OnlyIncludedFilesOpened ==
    RewriteStarted => rw_path \in PathGroups(rp_results)

\* the fallible steps of replace_in_file
RewriteSteps == {"open", "create", "read", "write", "flush", "rename"}

InGroup(results, i, p) == results[i].included /\ results[i].path = p

\* C27: when replace_in_file fails at any of its steps, every included
\* match of that file gets outcome Error with the stringified cause,
\* whatever outcome the streaming pass had given it, and the matches of
\* other files keep theirs.
C27_FileErrorMarksAll ==
    [][\A p \in Paths :
          (rp_ret'[p] = "err") =>
              /\ \E step \in RewriteSteps :
                   \A i \in DOMAIN rp_results' :
                       InGroup(rp_results', i, p) =>
                           rp_results'[i].replace_result = Error(IoError(step))
              /\ (rp_ret[p] # "err") =>
                   \A i \in DOMAIN rp_results :
                       ~InGroup(rp_results, i, p) => rp_results'[i] = rp_results[i]]_vars

C27_Witness ==
    /\ rp_pc = "done"
    /\ \E i, j \in DOMAIN rp_results :
         /\ rp_results[i].included
         /\ rp_results[j].included
         /\ rp_results[i].path # rp_results[j].path
         /\ rp_ret[rp_results[i].path] = "err"
         /\ rp_results[i].replace_result = Error(IoError("rename"))
         /\ rp_ret[rp_results[j].path] = "ok"
         /\ rp_results[j].replace_result \in {NoResult, Success}

(***************************************************************************)
(* Properties of handle_background_processing_event (SpecReducer)          *)
(***************************************************************************)
\* what a screen shows and holds
ScreenState == <<current_screen, search_state, replace_state, search_fields, sp_gen>>

\* C28: SearchCompleted handled on a screen other than SearchProgressing,
\* and ReplacementCompleted handled on a screen other than
\* PerformingReplacement, leave the screen and its state unchanged.
C28_MismatchedCompletionIgnored ==
    [][/\ (Deliver(SearchCompleted(0)) /\ current_screen # "SearchProgressing")
             => UNCHANGED ScreenState
       /\ (Deliver(ReplacementCompleted(InjectedStats))
             /\ current_screen # "PerformingReplacement")
             => UNCHANGED ScreenState]_vars

\* C29: AddSearchResult handled on a screen other than SearchProgressing
\* changes nothing and returns rerender = false; handled on
\* SearchProgressing it appends that one match at the end of the results
\* and leaves the selected index and every earlier match as they were.
C29_AddResultFrame ==
    [][/\ (Deliver(AddSearchResult(InjectedMatch, 0))
             /\ current_screen # "SearchProgressing")
             => /\ rerender' = FALSE
                /\ UNCHANGED <<histVars, cfgVars, statsVars, rpVars, rwVars, ScreenState,
                               app_events, exit, swVars>>
       /\ (Deliver(AddSearchResult(InjectedMatch, 0))
             /\ current_screen = "SearchProgressing")
             => /\ search_state' =
                     [search_state EXCEPT !.results = Append(@, InjectedMatch)]
                /\ UNCHANGED <<current_screen, search_fields, replace_state>>
       /\ (ReceiveSearchEvent /\ Head(chan[sp_gen]).type = "AddSearchResult")
             => /\ search_state' =
                     [search_state EXCEPT
                          !.results = Append(@, Head(chan[sp_gen]).result)]
                /\ UNCHANGED <<current_screen, search_fields, replace_state>>]_vars

\* a match was appended after another one while the search was in progress,
\* and a later one was handled, and ignored, on SearchComplete
C29_Witness ==
    /\ current_screen = "SearchComplete"
    /\ rerender = FALSE
    /\ Len(search_state.results) >= 2
    /\ search_state.results[1] # InjectedMatch
    /\ search_state.results[Len(search_state.results)] = InjectedMatch

(***************************************************************************)
(* Order of the matches of one file (SpecSearch)                           *)
(***************************************************************************)
OrderedPerFile(ms) ==
    \A i, j \in DOMAIN ms :
        (i < j /\ ms[i].path = ms[j].path) => ms[i].line_number < ms[j].line_number

\* C30: under every interleaving of the scanner threads, the matches of one
\* file are received in strictly increasing line_number order (the matches
\* received, followed by those still in the channel of their search).
C30_PerFileLineOrder ==
    /\ OrderedPerFile(search_state.results)
    /\ \A g \in Gens :
         OrderedPerFile(IF current_screen = "SearchProgressing" /\ g = sp_gen
                        THEN MatchesOf(g)
                        ELSE SelectSeq([i \in DOMAIN chan[g] |-> chan[g][i].result],
                                       LAMBDA r : r # NoMatch))

\* the matches of two files were received interleaved, a later line of one
\* file before an earlier line of the other
C30_Witness ==
    \E i, j, k \in DOMAIN search_state.results :
        LET ms == search_state.results
        IN /\ i < j /\ j < k
           /\ ms[i].path = ms[k].path
           /\ ms[i].path # ms[j].path
           /\ ms[i].line_number < ms[k].line_number
           /\ ms[i].line_number > ms[j].line_number

(***************************************************************************)
(* Termination of a search (SpecLive)                                      *)
(***************************************************************************)
\* C31: once SearchProgressing is entered, SearchComplete is eventually
\* reached, also when files cannot be opened or lines cannot be read.
C31_SearchCompletes ==
    (current_screen = "SearchProgressing") ~> (current_screen = "SearchComplete")

DeviceFaults == \E p \in Paths : fs[p].exists /\ Contains(fs[p].data, IoFault)

\* the part of C31 that holds: when every read error consumes its line
\* (invalid UTF-8), and whatever file cannot be opened, the search completes
SearchCompletesUnlessFault ==
    (current_screen = "SearchProgressing" /\ ~DeviceFaults)
        ~> (current_screen = "SearchComplete")

(***************************************************************************)
(* Redraw hints of a streaming search (SpecClock)                          *)
(***************************************************************************)
\* a step of the AddSearchResult arm on the in-progress screen
MatchArrives ==
    /\ current_screen = "SearchProgressing"
    /\ current_screen' = "SearchProgressing"
    /\ sp_gen' = sp_gen
    /\ Len(search_state'.results) = Len(search_state.results) + 1

\* C32: a match arrival hints a redraw only when at least 100ms have
\* passed since the last redraw hinted in its search phase.
C32_RedrawsSpaced ==
    [][MatchArrives /\ rerender' => now - last_redraw >= RenderInterval]_vars

\* the part of C32 that holds: a match arrival hints a redraw exactly when
\* at least 100ms have passed since last_render, which is the start of the
\* phase or the last redraw hinted by a match arrival
MatchRedrawsSpaced ==
    [][MatchArrives => (rerender' <=> now - last_render >= RenderInterval)]_vars

\* a match arrival has just been handled without a redraw hint
MatchAppendedUnhinted ==
    /\ current_screen = "SearchProgressing"
    /\ search_state.results # <<>>
    /\ ~rerender

(***************************************************************************)
(* Sends on a closed channel (SpecCancel)                                  *)
(***************************************************************************)
\* thread t of search g takes the step in which its send of a match fails
SendFails(g, t) ==
    /\ thr[g][t] # NoThread
    /\ ~SendOk(g)
    /\ fs[thr[g][t].file].exists
    /\ thr[g][t].line <= Len(Lines(fs[thr[g][t].file].data))
    /\ LineSends(pfs[g], thr[g][t].file, Lines(fs[thr[g][t].file].data),
                 thr[g][t].line) # <<>>
    /\ thr'[g][t] # thr[g][t]

FailedSendReturns ==
    \A g \in Gens, t \in Threads :
        SendFails(g, t) => /\ thr'[g][t] = NoThread
                           /\ task'[g] = "walking"
                           /\ chan' = chan
                           /\ exit' = exit

\* C33: a scanner thread whose send of a match fails because the receiver
\* was dropped leaves the file and returns, nothing else changes and no
\* thread is ever in a panic state, and the worker still runs to its end.
C33_ClosedChannelTolerated ==
    /\ [][FailedSendReturns]_vars
    /\ [](\A g \in Gens, t \in Threads : thr[g][t] # Panicked)
    /\ \A g \in Gens : send_failed[g] ~> (task[g] = "done" \/ exit)

\* a send of a match failed while lines of the file were left, and the
\* worker has ended
C33_Witness ==
    \E g \in Gens : send_failed[g] /\ task[g] = "done" /\ sentinel_sends[g] = 1

(***************************************************************************)
(* Word motions of a text field (SpecForm)                                 *)
(***************************************************************************)
\* the cursor positions right of the cursor that begin a word
WordStartsRight(f) ==
    { i \in f.cursor_idx + 1 .. Len(f.text) - 1 :
        f.text[i + 1] # " " /\ f.text[i] = " " }

\* where the word to the right of the cursor begins: the word the cursor
\* is in or before, else the next word, else the beginning of the text
WordRightStart(f) ==
    IF f.cursor_idx < Len(f.text) /\ f.text[f.cursor_idx + 1] # " "
    THEN BackOverWord(f.text, f.cursor_idx)
    ELSE IF WordStartsRight(f) # {}
    THEN CHOOSE i \in WordStartsRight(f) : \A j \in WordStartsRight(f) : i <= j
    ELSE 0

ForwardThenBack(f) == move_cursor_back_word(move_cursor_forward_word(f))

\* C34: move_cursor_forward_word followed by move_cursor_back_word leaves
\* the cursor at the start of the word that was to its right, or at the
\* beginning of the text when there was none; the forward motion at the end
\* and the backward motion at the start leave the cursor where it is.
C34_ForwardBackWord ==
    LET f == search_fields.search
    IN /\ ForwardThenBack(f).cursor_idx = WordRightStart(f)
       /\ f.cursor_idx = Len(f.text) => move_cursor_forward_word(f) = f
       /\ f.cursor_idx = 0 => move_cursor_back_word(f) = f

\* the part of C34 that holds: the motions at the two ends of the text, and
\* the round trip from a cursor that is in a word or right before one
WordMotionsAtEnds ==
    LET f == search_fields.search
    IN /\ f.cursor_idx = Len(f.text) => move_cursor_forward_word(f) = f
       /\ f.cursor_idx = 0 => move_cursor_back_word(f) = f
       /\ (f.cursor_idx < Len(f.text) /\ f.text[f.cursor_idx + 1] # " ")
              => ForwardThenBack(f).cursor_idx = WordRightStart(f)

(***************************************************************************)
(* Validation of the form (Spec, SpecValidate)                             *)
(***************************************************************************)
HasError(f) == f.error # ""

\* a step of handle_app_event on PerformSearch in which validate_fields
\* returns Ok(None)
ValidationFails ==
    /\ app_events # <<>>
    /\ Head(app_events) = "PerformSearch"
    /\ app_events' = Tail(app_events)
    /\ validate_fields(search_fields).parsed = NoParsedFields

\* C35: after a validation that fails because one of the two patterns does
\* not compile, the Search field and the PathPattern field both carry an
\* error and the error popup is shown.
C35_BothFieldsAnnotated ==
    [][ValidationFails => /\ HasError(search_fields'.search)
                          /\ HasError(search_fields'.path_pattern)
                          /\ search_fields'.show_error_popup]_vars

\* the part of C35 that holds: each pattern that does not compile has its
\* own field annotated, and the popup is shown
FailingFieldsAnnotated ==
    [][ValidationFails =>
          /\ search_type(search_fields) = CompileError
                 => HasError(search_fields'.search)
          /\ path_pattern_parsed(search_fields) = CompileError
                 => HasError(search_fields'.path_pattern)
          /\ search_fields'.show_error_popup
          /\ current_screen' = "SearchFields"]_vars

\* a step of handle_app_event on PerformSearch
Submits ==
    /\ app_events # <<>>
    /\ Head(app_events) = "PerformSearch"
    /\ app_events' = Tail(app_events)

Validates == Submits /\ current_screen' = "SearchProgressing"

\* the mode the search pattern of the form is compiled in
SearchMode(sf) ==
    IF sf.fixed_strings THEN "Fixed"
    ELSE IF sf.advanced_regex THEN "PatternAdvanced"
    ELSE "Pattern"

\* C36: a non-empty path pattern is compiled in the mode of the search
\* pattern; with FixedStrings set it validates whatever its text and is
\* kept as a literal.
C36_PathFilterMode ==
    [][(Submits /\ search_fields.path_pattern.text # <<>>) =>
          /\ search_fields.fixed_strings => Validates
          /\ Validates =>
               pfs'[sp_gen'].path_pattern =
                   Pattern(SearchMode(search_fields), search_fields.path_pattern.text)]_vars

\* what the code does: a non-empty path pattern is compiled as a regex,
\* advanced or not, whether or not FixedStrings is set
PathFilterIsRegex ==
    [][(Submits /\ search_fields.path_pattern.text # <<>>) =>
          /\ ~CompilesAsRegex(search_fields.path_pattern.text) => ~Validates
          /\ Validates =>
               pfs'[sp_gen'].path_pattern =
                   Pattern(IF search_fields.advanced_regex THEN "PatternAdvanced"
                           ELSE "Pattern",
                           search_fields.path_pattern.text)]_vars

(***************************************************************************)
(* The error popup (SpecValidate, Spec)                                    *)
(***************************************************************************)
PopupKeys == ValidateKeys

PopupOnlyCloses ==
    /\ search_fields' = [search_fields EXCEPT !.show_error_popup = FALSE]
    /\ app_events' = app_events
    /\ current_screen' = "SearchFields"
    /\ exit' = FALSE

\* C37: while the error popup is open on the form, a key other than Ctrl-R
\* only closes the popup: the fields, their errors and the focus stay, no
\* PerformSearch is sent and the application does not exit.
C37_PopupSwallowsKey ==
    [][\A k \in PopupKeys :
          (current_screen = "SearchFields" /\ search_fields.show_error_popup
              /\ HandleKeyEvents(k)) => PopupOnlyCloses]_vars

\* a key closed the popup and left the error of the failed validation
C37_Witness ==
    /\ current_screen = "SearchFields"
    /\ ~search_fields.show_error_popup
    /\ HasError(search_fields.search) \/ HasError(search_fields.path_pattern)
    /\ ~exit

OffForm ==
    current_screen \in {"SearchProgressing", "SearchComplete", "PerformingReplacement",
                        "Results"}

\* C38: the error popup is open only while the screen is the form, so that
\* on every other screen Esc and Ctrl-C are quit keys.
C38_PopupOnlyOnForm ==
    OffForm => /\ ~search_fields.show_error_popup
               /\ QuitKey(KeyEsc)
               /\ QuitKey(Ctrl("c"))

\* a search screen was reached by the first of several PerformSearch events
\* that were queued together, and the next one is still waiting
C38_Witness ==
    /\ OffForm
    /\ app_events # <<>>
    /\ Head(app_events) = "PerformSearch"
    /\ ~search_fields.show_error_popup

NoErrors(sf) ==
    /\ ~HasError(sf.search)
    /\ ~HasError(sf.replace)
    /\ ~HasError(sf.path_pattern)

\* C39: when a submission validates and the screen moves from the form to
\* SearchProgressing, no field of the form carries an error: the error of
\* an earlier failed validation was cleared before the form could validate.
C39_NoErrorAfterValidation ==
    [][Validates => NoErrors(search_fields')]_vars

\* the form validated after an earlier validation had failed
C39_Witness ==
    /\ rejected
    /\ current_screen = "SearchProgressing"
    /\ NoErrors(search_fields)

\* the same, with the Search field still holding the text that had not
\* compiled: the error was cleared by a key handled on FixedStrings
ClearedOnFixedStrings ==
    /\ rejected
    /\ current_screen = "SearchProgressing"
    /\ search_fields.fixed_strings
    /\ search_fields.search.text = <<"[">>

(***************************************************************************)
(* Searches do not mix (Spec)                                              *)
(***************************************************************************)
\* every event waiting in the channel of a search was sent by its worker
OwnEventsOnly ==
    \A g \in Gens : \A i \in 1..Len(chan[g]) : chan[g][i].from = g

\* the step to SearchComplete handles the sentinel of the search of the
\* screen, whose worker has ended
OwnSentinelCompletes ==
    (current_screen = "SearchProgressing" /\ current_screen' = "SearchComplete")
        => /\ chan[sp_gen] # <<>>
           /\ Head(chan[sp_gen]) = SearchCompleted(sp_gen)
           /\ task[sp_gen] = "done"
           /\ sentinel_sends[sp_gen] = 1

\* C40: no match and no completion sentinel of an earlier search's worker
\* reaches a later search: the channel of a search only ever holds events
\* of its own worker, and a search is completed by its own sentinel.
C40_SearchesIsolated ==
    /\ []OwnEventsOnly
    /\ [][OwnSentinelCompletes]_vars

\* the worker of an earlier search, some of whose sends failed, ended while
\* the search that followed it was still in progress with results
C40_Witness ==
    /\ current_screen = "SearchProgressing"
    /\ search_state.results # <<>>
    /\ \E g \in Gens :
         /\ g < sp_gen
         /\ send_failed[g]
         /\ task[g] = "done"

====
